---- MODULE Spec2Model ----
(***************************************************************************)
(* Model of electron-collider's Electron acquisition engine                *)
(* (crates/collider-electron, ElectronOpts::ensure_electron): resolution   *)
(* of a semver range against the local package manifest and the GitHub     *)
(* tag/release catalog, and the download / extract / cleanup sequence that *)
(* fills the on-disk cache.                                                *)
(*                                                                         *)
(* Strings are modelled as sequences of tokens, so that formatting a       *)
(* version into a tag, a target triple or an asset name, and parsing a tag *)
(* back into a version, are computations that can go wrong.                *)
(***************************************************************************)
EXTENDS Integers, Sequences, FiniteSets, TLC

\* ------------------------------------------------------------------ bounds
\* Longest list of candidate versions a bisection runs over.
MaxCandidates == 12
\* Number of body chunks an asset download delivers.
NChunks == 1
\* Number of tags beyond one full page in the long catalog.
LongExtra == 1
\* Longest catalog of the resolver's specification.
MaxTags == 3

\* ------------------------------------------------- program constants
\* .per_page(100) of the tag listing request.
PerPage == 100

Procs == {1, 2}
\* Invocations are serialized by the caller: one process runs at a time.
SerialProcs == {1}

None == [some |-> FALSE]
Some(x) == [some |-> TRUE, val |-> x]

\* ------------------------------------------------------------ strings
\* A string is a sequence of tokens; a token is a number or a symbol.
N(n) == [k |-> "num", n |-> n, s |-> ""]
S(s) == [k |-> "sym", n |-> 0, s |-> s]

\* ------------------------------------------------------------ versions
\* node_semver::Version: major.minor.patch with an optional prerelease
\* "-beta.n" (pre = 0 means a release).
V(ma, mi, pa) == [major |-> ma, minor |-> mi, patch |-> pa, pre |-> 0]
VPre(ma, mi, pa, n) == [major |-> ma, minor |-> mi, patch |-> pa, pre |-> n]

is_prerelease(v) == v.pre # 0

\* Display for Version: "2.5.0" is 2 . 5 . 0, "2.6.0-beta.1" adds - beta . 1
VersionToString(v) ==
    <<N(v.major), S("."), N(v.minor), S("."), N(v.patch)>>
        \o (IF v.pre = 0 THEN <<>>
            ELSE <<S("-"), S("beta"), S("."), N(v.pre)>>)

\* str::parse::<Version>(): succeeds only on text of the shape Display
\* produces.
ParseVersion(text) ==
    IF /\ Len(text) \in {5, 9}
       /\ text[1].k = "num" /\ text[2] = S(".") /\ text[3].k = "num"
       /\ text[4] = S(".") /\ text[5].k = "num"
       /\ Len(text) = 9 =>
            /\ text[6] = S("-") /\ text[7] = S("beta") /\ text[8] = S(".")
            /\ text[9].k = "num" /\ text[9].n > 0
    THEN [ok |-> TRUE,
          val |-> [major |-> text[1].n, minor |-> text[3].n,
                   patch |-> text[5].n,
                   pre |-> IF Len(text) = 9 THEN text[9].n ELSE 0]]
    ELSE [ok |-> FALSE, val |-> V(0, 0, 0)]

\* Ord for Version: semver precedence; a prerelease sorts below the release
\* with the same major.minor.patch.
VersionLess(a, b) ==
    \/ a.major < b.major
    \/ a.major = b.major /\ a.minor < b.minor
    \/ a.major = b.major /\ a.minor = b.minor /\ a.patch < b.patch
    \/ /\ a.major = b.major /\ a.minor = b.minor /\ a.patch = b.patch
       /\ \/ a.pre # 0 /\ b.pre = 0
          \/ a.pre # 0 /\ b.pre # 0 /\ a.pre < b.pre

VersionLeq(a, b) == a = b \/ VersionLess(a, b)

SameTuple(a, b) ==
    a.major = b.major /\ a.minor = b.minor /\ a.patch = b.patch

\* -------------------------------------------------------------- ranges
\* node_semver::Range: "^base" and "=base"; Range::any() is ">=0.0.0".
RangeAny == [op |-> "any", base |-> V(0, 0, 0)]
Caret(v) == [op |-> "caret", base |-> v]
Exact(v) == [op |-> "exact", base |-> v]

\* The versions a caret range admits besides the lower bound: the leftmost
\* non-zero component is kept.
CaretCompatible(base, v) ==
    IF base.major > 0 THEN v.major = base.major
    ELSE IF base.minor > 0 THEN v.major = 0 /\ v.minor = base.minor
    ELSE SameTuple(v, base)

\* Range::satisfies: the version lies inside the bounds of the range, and a
\* prerelease version satisfies only a range whose bound is a prerelease of
\* the same major.minor.patch.
satisfies(range, v) ==
    CASE range.op = "any" -> ~is_prerelease(v)
      [] range.op = "exact" -> v = range.base
      [] range.op = "caret" ->
            /\ VersionLeq(range.base, v)
            /\ CaretCompatible(range.base, v)
            /\ is_prerelease(v) =>
                   is_prerelease(range.base) /\ SameTuple(v, range.base)

\* ----------------------------------------------------- host environment
\* std::env::consts::OS and ARCH of the build.
Host(os, arch) == [os |-> os, arch |-> arch]

\* An unknown OS taken for linux.
PlatformDefault(os) ==
    CASE os = "windows" -> Some("win32")
      [] os = "macos" -> Some("darwin")
      [] OTHER -> Some("linux")

\* The match on std::env::consts::OS in ensure_electron.
Platform(os) ==
    CASE os = "windows" -> Some("win32")
      [] os = "macos" -> Some("darwin")
      [] os = "linux" -> Some("linux")
      [] OTHER -> None

\* The match on std::env::consts::ARCH in ensure_electron.
Arch(arch) ==
    CASE arch = "x86" -> Some("ia32")
      [] arch = "x86_64" -> Some("x64")
      [] arch = "aarch64" -> Some("arm64")
      [] OTHER -> None

get_exe_name(os) ==
    CASE os = "windows" -> "electron.exe"
      [] os = "macos" -> "Electron.app/Contents/MacOS/Electron"
      [] os = "linux" -> "electron"
      [] OTHER -> "electron"

\* format!("v{}-{}-{}", version, os, arch)
get_target_triple(version, os, arch) ==
    <<S("v")>> \o VersionToString(version)
        \o <<S("-"), S(os), S("-"), S(arch)>>

\* The asset name without its prefix.
ZipNameBare(triple) == triple \o <<S(".zip")>>

\* format!("electron-{}.zip", triple)
ZipName(triple) == <<S("electron-")>> \o triple \o <<S(".zip")>>

\* format!("v{}", version), the tag a release is looked up by.
TagOf(version) == <<S("v")>> \o VersionToString(version)

\* The tag taken whole.
StripNothing(name) == name

\* tag.name[1..]: the tag without its first character.
StripPrefix(name) == SubSeq(name, 2, Len(name))

\* The files an Electron asset archive holds for a host, in archive order.
ArchiveEntries(os) == <<get_exe_name(os), "resources.pak">>

FileStates == {"absent", "partial", "whole"}

EmptyDir(os) ==
    [f \in {ArchiveEntries(os)[i] : i \in 1..Len(ArchiveEntries(os))}
        |-> "absent"]

\* ------------------------------------------------------ local manifests
\* The package.json of each ancestor of the executable's directory, nearest
\* first.
NoPkg == [kind |-> "absent", name |-> "", version |-> V(0, 0, 0)]
BadPkg == [kind |-> "badjson", name |-> "", version |-> V(0, 0, 0)]
Pkg(n, v) == [kind |-> "pkg", name |-> n, version |-> v]

NoManifest == <<NoPkg>>
Collider250 ==
    <<NoPkg, Pkg("my-app", V(1, 9, 0)), Pkg("collider", V(2, 5, 0))>>
ColliderBeta == <<Pkg("collider", VPre(2, 6, 0, 1))>>
BadManifest == <<BadPkg, Pkg("collider", V(2, 5, 0))>>

\* A package.json that exists and cannot be read.
UnreadablePkg == [kind |-> "unreadable", name |-> "", version |-> V(0, 0, 0)]

\* An application's manifest, then one that cannot be read, below the
\* product's.
UnreadableManifest ==
    <<Pkg("my-app", V(1, 9, 0)), UnreadablePkg, Pkg("collider", V(2, 5, 0))>>

\* An application's manifest that is no JSON, below the product's.
BadAppManifest == <<NoPkg, BadPkg, Pkg("collider", V(2, 5, 0))>>

\* The product installed inside another copy of it, with a broken manifest
\* in between.
NestedCollider ==
    <<Pkg("my-app", V(1, 9, 0)), Pkg("collider", V(2, 0, 0)), BadPkg,
      Pkg("collider", V(3, 0, 0))>>

\* The walk with every manifest that cannot be read or parsed passed over.
RECURSIVE WalkSkipping(_, _)
WalkSkipping(chain, i) ==
    IF i > Len(chain) THEN [ok |-> TRUE, val |-> None]
    ELSE IF chain[i].kind = "pkg" /\ chain[i].name = "collider"
    THEN [ok |-> TRUE, val |-> Some(chain[i].version)]
    ELSE WalkSkipping(chain, i + 1)

lenient_collider_version(chain) == WalkSkipping(chain, 1)

\* current_collider_version: walk the ancestors, read and parse every
\* package.json met, and return the version of the first one named
\* "collider".
RECURSIVE WalkAncestors(_, _)
WalkAncestors(chain, i) ==
    IF i > Len(chain) THEN [ok |-> TRUE, val |-> None]
    ELSE CASE chain[i].kind = "absent" -> WalkAncestors(chain, i + 1)
           [] chain[i].kind = "unreadable" ->
                [ok |-> FALSE, val |-> Some("IoError")]
           [] chain[i].kind = "badjson" ->
                [ok |-> FALSE, val |-> Some("BadJson")]
           [] OTHER ->
                IF chain[i].name = "collider"
                THEN [ok |-> TRUE, val |-> Some(chain[i].version)]
                ELSE WalkAncestors(chain, i + 1)

current_collider_version(chain) == WalkAncestors(chain, 1)

\* ------------------------------------------------------------- catalog
\* The tags of electron/electron as the API lists them, newest first.
SpecCatalog ==
    <<TagOf(V(3, 0, 0)), TagOf(V(2, 5, 0)), TagOf(V(2, 0, 0)),
      TagOf(V(1, 9, 0))>>

\* One full page of prereleases, then releases on the next page.
LongCatalog ==
    [i \in 1..PerPage |-> TagOf(VPre(4, 0, 0, PerPage + 1 - i))]
        \o SubSeq(SpecCatalog, 2, 1 + LongExtra)

BetaCatalog ==
    <<TagOf(V(3, 0, 0)), TagOf(VPre(2, 6, 0, 1)), TagOf(V(2, 5, 0))>>

NightlyCatalog ==
    <<TagOf(V(3, 0, 0)), <<S("v"), S("nightly")>>, TagOf(V(2, 5, 0))>>

UnsortedCatalog == <<TagOf(V(2, 0, 0)), TagOf(V(2, 5, 0))>>

\* octocrab::Error: the variant and the words of its message.
ApiError(variant, message) == [variant |-> variant, message |-> message]

\* The request was answered without an error.
Answered == ApiError("", <<>>)

\* The API's answer to a client over its quota.
RateLimited ==
    ApiError("GitHub", <<"API", "rate", "limit", "exceeded", "for", "user">>)

\* The errors a request to the API ends with: the error documents GitHub
\* sends (over the quota, abuse detection, no such release) and failures
\* of the transport and of the decoding of the answer.
ApiErrors ==
    { RateLimited,
      ApiError("GitHub",
               <<"You", "have", "exceeded", "a", "secondary", "rate",
                 "limit">>),
      ApiError("GitHub", <<"Not", "Found">>),
      ApiError("Http", <<"error", "sending", "request">>),
      ApiError("Json", <<"missing", "field">>) }

\* What releases().get_by_tag(tag) can answer: the release or an error.
TagResponses == {Answered} \cup ApiErrors

\* The environments an invocation runs in: the host, the manifests above
\* the executable, the catalog, and the versions whose release carries the
\* asset of the host's target.
Env(h, chain, cat, pub) ==
    [host |-> h, exeDirs |-> chain, catalog |-> cat, published |-> pub]

Linux == Host("linux", "x86_64")

Environments ==
    { Env(Linux, NoManifest, SpecCatalog, {V(2, 5, 0)}),
      Env(Linux, Collider250, SpecCatalog, {V(2, 5, 0)}),
      Env(Linux, Collider250, SpecCatalog, {V(2, 0, 0)}),
      Env(Linux, ColliderBeta, BetaCatalog, {VPre(2, 6, 0, 1)}),
      Env(Linux, Collider250, NightlyCatalog, {V(3, 0, 0)}),
      Env(Linux, NoManifest, LongCatalog, {}),
      Env(Host("macos", "aarch64"), NoManifest, UnsortedCatalog,
          {V(2, 0, 0)}),
      Env(Linux, BadManifest, SpecCatalog, {}),
      Env(Linux, UnreadableManifest, SpecCatalog, {}),
      Env(Linux, BadAppManifest, SpecCatalog, {}),
      Env(Linux, NestedCollider, SpecCatalog, {V(2, 0, 0)}),
      Env(Linux, NoManifest, <<>>, {}),
      Env(Host("freebsd", "x86_64"), Collider250, SpecCatalog, {}),
      Env(Host("linux", "arm"), Collider250, SpecCatalog, {}) }

\* list_tags().per_page(100).page(page): the page-th slice of the catalog.
TagPage(cat, page) ==
    SubSeq(cat, page * PerPage + 1,
           IF (page + 1) * PerPage < Len(cat)
           THEN (page + 1) * PerPage ELSE Len(cat))

\* --------------------------------------------------------------- state
VARIABLES
    host,       \* std::env::consts::{OS, ARCH}
    exeDirs,    \* package.json of the ancestors of current_exe()
    catalog,    \* the tags the GitHub API lists, newest first
    published,  \* versions whose release has the host's asset
    api,        \* the answers the GitHub API gives to a request
    dataDir,    \* dirs.data_local_dir(): triple -> extracted files
    cacheDir,   \* dirs.cache_dir(): zip name -> downloaded archive
    roots,      \* which of the two root directories exist
    task,       \* per invocation: position and locals of ensure_electron
    last,       \* what the previous invocation installed
    bisect,     \* BisectCmd::execute: candidates, bracket, pivot, position
    config      \* ColliderConfigOptions, the sources it reads, the result

vars ==
    <<host, exeDirs, catalog, published, api, dataDir, cacheDir, roots, task,
      last, bisect, config>>

env == <<host, exeDirs, catalog, published, api>>

\* What the acquisition engine has no access to.
outside == <<bisect, config>>

\* What the commands reach only through the engine.
engine == <<env, dataDir, cacheDir, roots, task, last>>

\* No bisection is running.
BisectOff ==
    [pc |-> "off", all_versions |-> <<>>, start |-> <<>>, end |-> <<>>,
     versions |-> <<>>, interactive |-> FALSE,
     min_rev |-> 0, max_rev |-> 0, pivot |-> 0, is_bisect_over |-> FALSE,
     tested |-> <<>>, bracket |-> <<>>, err |-> ""]

\* No configuration is being loaded.
ConfigOff ==
    [pc |-> "off", global |-> TRUE, env |-> TRUE, pkg_root |-> None,
     global_config_file |-> None, vars |-> {}, files |-> <<>>,
     c |-> <<>>, got |-> None]

NoResult ==
    [ok |-> FALSE, err |-> "", exe |-> <<>>, version |-> V(0, 0, 0),
     range |-> RangeAny, target |-> <<>>]

\* ElectronOpts::new() and the locals of one ensure_electron() call.
IdleTask ==
    [pc |-> "idle",
     range |-> RangeAny, force |-> FALSE, include_prerelease |-> FALSE,
     version |-> V(0, 0, 0), assets |-> {}, triple |-> <<>>,
     page |-> 0, tags |-> <<>>, idx |-> 0,
     written |-> 0, junk |-> FALSE, entry |-> 0,
     result |-> NoResult,
     \* observations of the call
     log |-> <<>>,          \* requests sent, in order
     skipped |-> {},        \* tags whose release lookup failed, swallowed
     limited |-> FALSE,     \* a rate-limit response was received
     apiError |-> Answered, \* the API error that ended the call
     parsed |-> <<>>,       \* the tags handed to the version parser
     via |-> "",            \* where the release came from: local, scan
     exeAtStart |-> FALSE,  \* the local version's executable was cached
     destAtCheck |-> FALSE, \* the cache directory existed at the cache check
     installing |-> FALSE,  \* the install sequence was entered
     installed |-> FALSE]   \* the install sequence ran to its end

Err(kind) == [NoResult EXCEPT !.err = kind]

\* ElectronError::MatchingVersionNotFound(range.clone())
MatchingVersionNotFound(range) ==
    [NoResult EXCEPT !.err = "MatchingVersionNotFound", !.range = range]

\* ElectronError::MissingElectronFiles { version, target: name }
MissingElectronFiles(version, name) ==
    [NoResult EXCEPT !.err = "MissingElectronFiles", !.version = version,
                     !.target = name]

\* Electron { exe, version, os, arch }; the path is (cache entry, file).
Handle(triple, os, version) ==
    [NoResult EXCEPT !.ok = TRUE, !.exe = <<triple, get_exe_name(os)>>,
                     !.version = version]

Ranges == { RangeAny, Caret(V(2, 0, 0)), Exact(VPre(2, 6, 0, 1)) }

NothingInstalled == [installed |-> FALSE, exe |-> <<>>]

Init ==
    /\ \E e \in Environments :
          /\ host = e.host
          /\ exeDirs = e.exeDirs
          /\ catalog = e.catalog
          /\ published = e.published
          /\ api = TagResponses
    /\ dataDir = <<>>
    /\ cacheDir = <<>>
    /\ roots = {}
    /\ task = [p \in Procs |-> IdleTask]
    /\ last = NothingInstalled
    /\ bisect = BisectOff
    /\ config = ConfigOff

\* p's locals with the fields of upd replaced.
Set(p, upd) == task' = [task EXCEPT ![p] = upd @@ @]

\* p returns r to its caller.
Return(p, r, upd) == Set(p, [pc |-> "done", result |-> r] @@ upd)

\* p fails with an error of the given kind.
Fail(p, kind) == Return(p, Err(kind), [pc |-> "done"])

Request(p, op, arg) == Append(task[p].log, [op |-> op, arg |-> arg])

\* fs::metadata(dest.join(exe)).is_ok()
ExeExists(triple, os) ==
    /\ triple \in DOMAIN dataDir
    /\ dataDir[triple][get_exe_name(os)] # "absent"

\* The root directories made when their paths are worked out.
ProjectDirsCreated(existing) == existing \cup {"data_local_dir", "cache_dir"}

\* ProjectDirs::from("", "", "collider"): the paths of the roots are worked
\* out; the directories that exist are the ones that existed.
ProjectDirs(existing) == existing

\* The fast path taken only when force is set.
FastPathForced(force, range, version) == force /\ satisfies(range, version)

\* The condition of the fast path: !force && range.satisfies(&version)
FastPath(force, range, version) == ~force /\ satisfies(range, version)

\* ensure_electron, up to and including the fast path that serves the
\* local version from the cache.
ensure_electron(p, range, force, include_prerelease) ==
    /\ task[p].pc = "idle"
    /\ UNCHANGED <<env, outside, dataDir, cacheDir, last>>
    /\ roots' = ProjectDirs(roots)
    /\ LET os == Platform(host.os)
           arch == Arch(host.arch)
           local == current_collider_version(exeDirs)
           opts == [range |-> range, force |-> force,
                    include_prerelease |-> include_prerelease]
       IN  IF ~os.some THEN Return(p, Err("UnsupportedPlatform"), opts)
           ELSE IF ~arch.some THEN Return(p, Err("UnsupportedArch"), opts)
           ELSE IF ~local.ok THEN Return(p, Err(local.val.val), opts)
           ELSE LET triple ==
                      get_target_triple(local.val.val, os.val, arch.val)
                    cached == local.val.some /\ ExeExists(triple, host.os)
                IN  IF /\ local.val.some
                       /\ FastPath(force, range, local.val.val)
                       /\ cached
                    THEN Return(p, Handle(triple, host.os, local.val.val),
                                opts @@ [exeAtStart |-> TRUE,
                                         triple |-> triple])
                    ELSE Set(p, opts @@ [pc |-> "resolve",
                                         exeAtStart |-> cached])

\* The targets a release publishes an asset for.
ReleaseTargets ==
    { [platform |-> "linux", arch |-> "x64"],
      [platform |-> "darwin", arch |-> "arm64"],
      [platform |-> "win32", arch |-> "ia32"] }

AssetNames(version, targets) ==
    { ZipName(get_target_triple(version, t.platform, t.arch)) :
        t \in targets }

\* The assets of the release of a version: those of every target, without
\* the host's when the version is not published for it.
ReleaseAssets(version) ==
    AssetNames(version,
        { t \in ReleaseTargets :
            \/ version \in published
            \/ ~(/\ Platform(host.os) = Some(t.platform)
                 /\ Arch(host.arch) = Some(t.arch)) })

\* str::contains, over the words of a message.
Contains(text, phrase) ==
    \E i \in 0..(Len(text) - Len(phrase)) :
        SubSeq(text, i + 1, i + Len(phrase)) = phrase

\* Every error of the GitHub variant taken for a rate limit.
ClassifyByVariant(err) ==
    IF err.variant = "GitHub" THEN "GitHubApiLimit" ELSE "GitHubApiError"

\* From<octocrab::Error> for ElectronError: a GitHub error whose message
\* contains "rate limit exceeded" is GitHubApiLimit, any other error is
\* GitHubApiError.
ClassifyApiError(err) ==
    IF /\ err.variant = "GitHub"
       /\ Contains(err.message, <<"rate", "limit", "exceeded">>)
    THEN "GitHubApiLimit"
    ELSE "GitHubApiError"

\* The prerelease rule left out of the lookup condition.
AdmitsPrerelease(range, include_prerelease, version) ==
    satisfies(range, version)

\* The condition under which a release is looked up at all:
\* range.satisfies(version) && (!version.is_prerelease() || include_prerelease)
Admits(range, include_prerelease, version) ==
    /\ satisfies(range, version)
    /\ ~is_prerelease(version) \/ include_prerelease

\* Every error of a release lookup returned to the caller.
PropagatesAll(err) == TRUE

\* Every error of the API returned to the caller, the generic one too.
PropagatesApiErrors(err) == err \in {"GitHubApiLimit", "GitHubApiError"}

\* Every error of a release lookup swallowed.
PropagatesNothing(err) == FALSE

\* Err(err @ ElectronError::GitHubApiLimit(_)) => return Err(err);
\* Err(_) => {}
Propagates(err) == err = "GitHubApiLimit"

\* The release found is dropped and the caller goes on.
AfterReleaseGoOn(cont) == cont

\* Ok(release) => return Ok(Some(release)), and the caller returns it: the
\* scan is left.
AfterRelease(cont) == [pc |-> "pick"]

\* get_electron_release_from_tag: look the release of a version up when the
\* version satisfies the range and the prerelease rule.  cont are the
\* updates the caller makes when it goes on because no release came back,
\* obs what the caller did before the call.
get_electron_release_from_tag(p, version, cont, obs) ==
    IF Admits(task[p].range, task[p].include_prerelease, version)
    THEN \E resp \in api :
            LET sent == [log |-> Request(p, "get_by_tag", TagOf(version)),
                         limited |->
                            task[p].limited \/ resp = RateLimited] @@ obs
            IN  IF resp = Answered
                THEN Set(p, AfterRelease(cont)
                            @@ [version |-> version,
                                assets |-> ReleaseAssets(version),
                                via |-> IF task[p].pc = "resolve"
                                        THEN "local" ELSE "scan"]
                            @@ sent)
                ELSE IF Propagates(ClassifyApiError(resp))
                THEN Return(p, Err(ClassifyApiError(resp)),
                            [apiError |-> resp] @@ sent)
                ELSE Set(p, [skipped |->
                                task[p].skipped \cup {TagOf(version)}]
                            @@ sent @@ cont)
    ELSE Set(p, cont @@ obs)

\* get_electron_release, first part: the release of the local version.
get_electron_release(p) ==
    /\ task[p].pc = "resolve"
    /\ UNCHANGED <<env, outside, dataDir, cacheDir, roots, last>>
    /\ LET local == current_collider_version(exeDirs)
           scan == [pc |-> "list", page |-> 0]
       IN  IF ~local.ok THEN Fail(p, local.val.val)
           ELSE IF local.val.some
           THEN get_electron_release_from_tag(p, local.val.val, scan,
                                              [parsed |-> <<>>])
           ELSE Set(p, scan)

\* A page index that skips every other page.
NextPageSkip(page) == page + 2

\* for page in 0u32..
NextPage(page) == page + 1

\* get_electron_release, the page loop: request the next page of tags.
list_tags(p) ==
    /\ task[p].pc = "list"
    /\ UNCHANGED <<env, outside, dataDir, cacheDir, roots, last>>
    /\ \E outcome \in api :
         LET sent == [log |-> Request(p, "list_tags", <<N(task[p].page)>>)]
             tags == TagPage(catalog, task[p].page)
         IN  IF outcome # Answered
             THEN Return(p, Err(ClassifyApiError(outcome)),
                         [limited |-> outcome = RateLimited,
                          apiError |-> outcome] @@ sent)
             ELSE IF tags = <<>>
             THEN Return(p, MatchingVersionNotFound(task[p].range), sent)
             ELSE Set(p, [pc |-> "scan", tags |-> tags, idx |-> 1] @@ sent)

\* get_electron_release, the tag loop: parse the next tag of the page and
\* look its release up.
scan_tag(p) ==
    /\ task[p].pc = "scan"
    /\ UNCHANGED <<env, outside, dataDir, cacheDir, roots, last>>
    /\ LET t == task[p]
           version == ParseVersion(StripPrefix(t.tags[t.idx]))
           next == IF t.idx < Len(t.tags)
                   THEN [idx |-> t.idx + 1]
                   ELSE [pc |-> "list", page |-> NextPage(t.page)]
           parsed == [parsed |-> Append(t.parsed, t.tags[t.idx])]
       IN  IF ~version.ok
           THEN Return(p, Err("SemverError"), parsed)
           ELSE get_electron_release_from_tag(p, version.val, next, parsed)

\* A cache check that gives way to a call already installing the key.
CacheMissExclusive(force, triple) ==
    /\ force \/ triple \notin DOMAIN dataDir
    /\ ~\E q \in Procs :
          /\ task[q].installing
          /\ task[q].pc # "done"
          /\ task[q].triple = triple

\* The cache check with the force flag left out.
CacheMissUnforced(force, triple) == triple \notin DOMAIN dataDir

\* The install sequence run whatever the cache holds.
CacheMissAlways(force, triple) == TRUE

\* ensure_electron_exe's test for running the install sequence:
\* force || fs::metadata(&dest).is_err()
CacheMiss(force, triple) == force \/ triple \notin DOMAIN dataDir

\* The asset looked for only when the cache has no directory for the key.
LacksAssetOnMiss(assets, name, cached) == ~cached /\ name \notin assets

\* release.assets.iter().find(|a| a.name == name) gives nothing; what the
\* cache holds is not looked at.
LacksAsset(assets, name, cached) == name \notin assets

\* ensure_electron after resolution: pick_electron_zip, then the cache check
\* that opens ensure_electron_exe.
pick_electron_zip(p) ==
    /\ task[p].pc = "pick"
    /\ UNCHANGED <<env, outside, dataDir, cacheDir, roots, last>>
    /\ LET t == task[p]
           triple == get_target_triple(t.version, Platform(host.os).val,
                                       Arch(host.arch).val)
           name == ZipName(triple)
           seen == [triple |-> triple,
                    destAtCheck |-> triple \in DOMAIN dataDir]
       IN  IF LacksAsset(t.assets, name, ~CacheMiss(t.force, triple))
           THEN Return(p, MissingElectronFiles(t.version, name),
                       [triple |-> triple])
           ELSE IF CacheMiss(t.force, triple)
           THEN Set(p, [pc |-> "mkdirs", installing |-> TRUE] @@ seen)
           ELSE Return(p, Handle(triple, host.os, t.version), seen)

\* ------------------------------------------------------------- install
\* The archive file ensure_electron_exe downloads to.
ZipFile(len, junk) == [len |-> len, junk |-> junk]

\* ZipArchive::new reads the central directory at the end of the file: it
\* needs the whole body of a real archive.
ValidArchive(file) == ~file.junk /\ file.len = NChunks

\* ensure_electron_exe: create_dir_all for the parent of dest and for the
\* cache directory.
create_dirs(p) ==
    /\ task[p].pc = "mkdirs"
    /\ UNCHANGED <<env, outside, dataDir, cacheDir, last>>
    /\ \E outcome \in {"ok", "fail_parent", "fail_cache"} :
         CASE outcome = "fail_parent" ->
                /\ Fail(p, "IoError")
                /\ UNCHANGED roots
           [] outcome = "fail_cache" ->
                /\ Fail(p, "IoError")
                /\ roots' = roots \cup {"data_local_dir"}
           [] OTHER ->
                /\ Set(p, [pc |-> "fetch"])
                /\ roots' = roots \cup {"data_local_dir", "cache_dir"}

\* ensure_electron_exe: reqwest::get of the asset, then File::create of the
\* archive file, which truncates a file left there before.  The body that
\* starts to arrive is an archive or something else (junk).
fetch_zip(p) ==
    /\ task[p].pc = "fetch"
    /\ UNCHANGED <<env, outside, dataDir, roots, last>>
    /\ LET sent == [log |-> Request(p, "download", ZipName(task[p].triple))]
       IN \E outcome \in {"ok", "ok_junk", "fail_get", "fail_create"} :
            CASE outcome = "fail_get" ->
                   /\ Return(p, Err("HttpError"), sent)
                   /\ UNCHANGED cacheDir
              [] outcome = "fail_create" ->
                   /\ Return(p, Err("IoError"), sent)
                   /\ UNCHANGED cacheDir
              [] OTHER ->
                   /\ Set(p, [pc |-> "chunks", written |-> 0,
                              junk |-> outcome = "ok_junk"] @@ sent)
                   /\ cacheDir' =
                        (ZipName(task[p].triple) :>
                            ZipFile(0, outcome = "ok_junk")) @@ cacheDir

\* The chunk loop left before the first chunk.
MoreChunksNever(written) == FALSE

\* while let Some(chunk) = res.chunk().await?: the body has chunks left.
MoreChunks(written) == written < NChunks

\* ensure_electron_exe: the chunk loop, and the flush that ends it.
write_chunk(p) ==
    /\ task[p].pc = "chunks"
    /\ UNCHANGED <<env, outside, dataDir, roots, last>>
    /\ LET t == task[p]
           zip == ZipName(t.triple)
       IN  IF MoreChunks(t.written)
           THEN \E outcome \in {"ok", "fail_chunk", "fail_write"} :
                  CASE outcome = "fail_chunk" ->
                         /\ Fail(p, "HttpError")
                         /\ UNCHANGED cacheDir
                    [] outcome = "fail_write" ->
                         /\ Fail(p, "IoError")
                         /\ UNCHANGED cacheDir
                    [] OTHER ->
                         /\ Set(p, [written |-> t.written + 1])
                         /\ cacheDir' =
                              [cacheDir EXCEPT ![zip] =
                                  ZipFile(t.written + 1, t.junk)]
           ELSE /\ UNCHANGED cacheDir
                /\ \E flushed \in BOOLEAN :
                     IF flushed THEN Set(p, [pc |-> "unzip"])
                     ELSE Fail(p, "IoError")

\* The blocking task: File::open of the archive and ZipArchive::new.
open_archive(p) ==
    /\ task[p].pc = "unzip"
    /\ UNCHANGED <<env, outside, dataDir, cacheDir, roots, last>>
    /\ LET zip == ZipName(task[p].triple)
       IN \E opened \in BOOLEAN :
            IF ~opened \/ zip \notin DOMAIN cacheDir
            THEN Fail(p, "IoError")
            ELSE IF ~ValidArchive(cacheDir[zip])
            THEN Fail(p, "ZipError")
            ELSE Set(p, [pc |-> "extract", entry |-> 1])

\* The blocking task: archive.extract(&dest) writes the next entry into the
\* final directory: it creates the directory the file goes into, creates
\* the file and copies the entry into it.
extract_entry(p) ==
    /\ task[p].pc = "extract"
    /\ UNCHANGED <<env, outside, cacheDir, roots, last>>
    /\ LET t == task[p]
           entries == ArchiveEntries(host.os)
           file == entries[t.entry]
           dir == IF t.triple \in DOMAIN dataDir THEN dataDir[t.triple]
                  ELSE EmptyDir(host.os)
           write(state) ==
               (t.triple :> [dir EXCEPT ![file] = state]) @@ dataDir
       IN \E outcome \in {"ok", "fail_create", "fail_copy"} :
            CASE outcome = "fail_create" ->
                   /\ Fail(p, "ZipError")
                   /\ dataDir' = (t.triple :> dir) @@ dataDir
              [] outcome = "fail_copy" ->
                   /\ Fail(p, "ZipError")
                   /\ dataDir' = write("partial")
              [] OTHER ->
                   /\ dataDir' = write("whole")
                   /\ IF t.entry < Len(entries)
                      THEN Set(p, [entry |-> t.entry + 1])
                      ELSE Set(p, [pc |-> "cleanup"])

\* ensure_electron_exe: remove the archive file and return the path of the
\* executable.
remove_zip(p) ==
    /\ task[p].pc = "cleanup"
    /\ UNCHANGED <<env, outside, dataDir, roots, last>>
    /\ LET t == task[p]
           zip == ZipName(t.triple)
       IN \E removed \in BOOLEAN :
            IF removed /\ zip \in DOMAIN cacheDir
            THEN /\ cacheDir' =
                      [z \in DOMAIN cacheDir \ {zip} |-> cacheDir[z]]
                 /\ Return(p, Handle(t.triple, host.os, t.version),
                           [installed |-> TRUE])
            ELSE /\ UNCHANGED cacheDir
                 /\ Fail(p, "IoError")

\* The process is killed while ensure_electron is running: nothing is
\* returned, and what it wrote stays.
interrupt(p) ==
    /\ task[p].pc \notin {"idle", "done"}
    /\ UNCHANGED <<env, outside, dataDir, cacheDir, roots>>
    /\ task' = [task EXCEPT ![p] = IdleTask]
    /\ last' = NothingInstalled

\* The caller takes the result; the next invocation starts afresh.
finish(p) ==
    /\ task[p].pc = "done"
    /\ UNCHANGED <<env, outside, dataDir, cacheDir, roots>>
    /\ last' = IF task[p].installed /\ task[p].result.ok
               THEN [installed |-> TRUE, exe |-> task[p].result.exe]
               ELSE NothingInstalled
    /\ task' = [task EXCEPT ![p] = IdleTask]

Next ==
    \E p \in SerialProcs :
        \/ \E r \in Ranges, f \in BOOLEAN, ip \in BOOLEAN :
              ensure_electron(p, r, f, ip)
        \/ get_electron_release(p)
        \/ list_tags(p)
        \/ scan_tag(p)
        \/ pick_electron_zip(p)
        \/ create_dirs(p)
        \/ fetch_zip(p)
        \/ write_chunk(p)
        \/ open_archive(p)
        \/ extract_entry(p)
        \/ remove_zip(p)
        \/ interrupt(p)
        \/ finish(p)

Spec == Init /\ [][Next]_vars

\* ------------------------------------------------------------ resolver
\* Resolution alone, over every short catalog: no release carries the
\* host's asset, so that nothing is ever installed.
TagPool ==
    { TagOf(V(3, 0, 0)), TagOf(V(2, 5, 0)), TagOf(V(2, 0, 0)),
      TagOf(VPre(2, 6, 0, 1)), <<S("v"), S("nightly")>> }

ShortCatalogs ==
    { c \in UNION { [1..n -> TagPool] : n \in 0..MaxTags } :
        \A i, j \in DOMAIN c : c[i] = c[j] => i = j }

InitResolve ==
    /\ host = Linux
    /\ exeDirs \in {NoManifest, Collider250, ColliderBeta}
    /\ catalog \in ShortCatalogs
    /\ published = {}
    /\ api = TagResponses
    /\ dataDir = <<>>
    /\ cacheDir = <<>>
    /\ roots = {}
    /\ task = [p \in Procs |-> IdleTask]
    /\ last = NothingInstalled
    /\ bisect = BisectOff
    /\ config = ConfigOff

NextResolve ==
    \E p \in SerialProcs :
        \/ \E r \in Ranges, f \in BOOLEAN, ip \in BOOLEAN :
              ensure_electron(p, r, f, ip)
        \/ get_electron_release(p)
        \/ list_tags(p)
        \/ scan_tag(p)
        \/ pick_electron_zip(p)
        \/ interrupt(p)
        \/ finish(p)

SpecResolve == InitResolve /\ [][NextResolve]_vars

\* --------------------------------------------------- target descriptor
\* The target mapping over every host: the values std::env::consts::OS and
\* ARCH take on builds the program supports and on builds it does not.
OsNames == {"windows", "macos", "linux", "freebsd", "ios"}
ArchNames == {"x86", "x86_64", "aarch64", "arm", "riscv64"}

OneCatalog == <<TagOf(V(2, 0, 0))>>
Collider200 == <<Pkg("collider", V(2, 0, 0))>>

\* The cache of a host that installed 2.0.0 before; empty on a host the
\* program cannot install anything on.
CacheOf(h) ==
    LET os == Platform(h.os)
        arch == Arch(h.arch)
    IN  IF os.some /\ arch.some
        THEN get_target_triple(V(2, 0, 0), os.val, arch.val)
                :> [f \in DOMAIN EmptyDir(h.os) |-> "whole"]
        ELSE <<>>

InitTarget ==
    /\ host \in {Host(os, arch) : os \in OsNames, arch \in ArchNames}
    /\ exeDirs \in {NoManifest, Collider200}
    /\ catalog = OneCatalog
    /\ published = {V(2, 0, 0)}
    /\ api = TagResponses
    /\ dataDir = CacheOf(host)
    /\ cacheDir = <<>>
    /\ roots = IF dataDir = <<>> THEN {}
               ELSE {"data_local_dir", "cache_dir"}
    /\ task = [p \in Procs |-> IdleTask]
    /\ last = NothingInstalled
    /\ bisect = BisectOff
    /\ config = ConfigOff

SpecTarget == InitTarget /\ [][NextResolve]_vars

\* ---------------------------------------------------------- concurrency
\* Two invocations of ensure_electron at the same time, on a host whose
\* cache is empty, for a catalog of one release: the processes share the
\* data and the cache directories and nothing else, and every await of one
\* is a point where the other can run.
InitConcurrent ==
    /\ host = Linux
    /\ exeDirs = NoManifest
    /\ catalog = OneCatalog
    /\ published = {V(2, 0, 0)}
    /\ api = TagResponses
    /\ dataDir = <<>>
    /\ cacheDir = <<>>
    /\ roots = {}
    /\ task = [p \in Procs |-> IdleTask]
    /\ last = NothingInstalled
    /\ bisect = BisectOff
    /\ config = ConfigOff

NextConcurrent ==
    \E p \in Procs :
        \/ \E f \in BOOLEAN : ensure_electron(p, RangeAny, f, FALSE)
        \/ get_electron_release(p)
        \/ list_tags(p)
        \/ scan_tag(p)
        \/ pick_electron_zip(p)
        \/ create_dirs(p)
        \/ fetch_zip(p)
        \/ write_chunk(p)
        \/ open_archive(p)
        \/ extract_entry(p)
        \/ remove_zip(p)

SpecConcurrent == InitConcurrent /\ [][NextConcurrent]_vars

\* ------------------------------------------------------- start command
\* StartCmd has its own copy of the acquisition logic.  The copy of the
\* resolver (get_electron_release, get_electron_release_from_tag) and of
\* the install sequence is the engine's, statement for statement; the entry
\* point and the place of the target mapping are not.
EngineProcs == {1}
StartProcs == {2}

\* StartCmd::get_target_triple: the target mapping, made when the triple
\* of a version is asked for.
StartCmd_get_target_triple(version) ==
    LET os == Platform(host.os)
        arch == Arch(host.arch)
    IN  IF ~os.some THEN [ok |-> FALSE, err |-> "UnsupportedPlatform"]
        ELSE IF ~arch.some THEN [ok |-> FALSE, err |-> "UnsupportedArch"]
        ELSE [ok |-> TRUE, err |-> "",
              val |-> get_target_triple(version, os.val, arch.val)]

\* StartCmd::get_electron_exe, up to and including the fast path.
get_electron_exe(p, range, force, include_prerelease) ==
    /\ task[p].pc = "idle"
    /\ UNCHANGED <<env, outside, dataDir, cacheDir, last>>
    /\ roots' = ProjectDirs(roots)
    /\ LET local == current_collider_version(exeDirs)
           opts == [range |-> range, force |-> force,
                    include_prerelease |-> include_prerelease]
           resolve == opts @@ [pc |-> "resolve"]
       IN  IF ~local.ok THEN Return(p, Err(local.val.val), opts)
           ELSE IF local.val.some /\ FastPath(force, range, local.val.val)
           THEN LET triple == StartCmd_get_target_triple(local.val.val)
                IN  IF ~triple.ok THEN Return(p, Err(triple.err), opts)
                    ELSE IF ExeExists(triple.val, host.os)
                    THEN Return(p, Handle(triple.val, host.os,
                                          local.val.val),
                                opts @@ [exeAtStart |-> TRUE,
                                         triple |-> triple.val])
                    ELSE Set(p, resolve)
           ELSE Set(p, resolve)

\* StartCmd::get_electron_exe after resolution: the triple of the resolved
\* version, then pick_electron_zip and the cache check, as in the engine.
StartCmd_pick(p) ==
    /\ task[p].pc = "pick"
    /\ LET triple == StartCmd_get_target_triple(task[p].version)
       IN  IF ~triple.ok
           THEN /\ UNCHANGED <<env, outside, dataDir, cacheDir, roots, last>>
                /\ Fail(p, triple.err)
           ELSE pick_electron_zip(p)

\* The call has returned or has reached its install sequence.
Settled(p) == task[p].pc \in {"done", "mkdirs"}

\* The call has been made.
Started(p) == task[p].pc # "idle"

\* One call through the engine, then the same call through the start
\* command, on every host, with a cache that holds 2.0.0 where the host
\* can have it, and an API that answers every request the same way.
InitStart ==
    /\ host \in {Host(os, arch) : os \in OsNames, arch \in ArchNames}
    /\ exeDirs \in {NoManifest, Collider200, BadManifest}
    /\ catalog = OneCatalog
    /\ published = {V(2, 0, 0)}
    /\ api \in {{answer} : answer \in TagResponses}
    /\ dataDir = CacheOf(host)
    /\ cacheDir = <<>>
    /\ roots = IF dataDir = <<>> THEN {}
               ELSE {"data_local_dir", "cache_dir"}
    /\ task = [p \in Procs |-> IdleTask]
    /\ last = NothingInstalled
    /\ bisect = BisectOff
    /\ config = ConfigOff

NextStart ==
    \/ \E p \in EngineProcs :
          \/ \E r \in Ranges, f \in BOOLEAN, ip \in BOOLEAN :
                ensure_electron(p, r, f, ip)
          \/ get_electron_release(p)
          \/ list_tags(p)
          \/ scan_tag(p)
          \/ pick_electron_zip(p)
    \/ \E q \in StartProcs, p \in EngineProcs :
          /\ Settled(p)
          /\ get_electron_exe(q, task[p].range, task[p].force,
                              task[p].include_prerelease)
    \/ \E q \in StartProcs : Started(q) /\ get_electron_release(q)
    \/ \E q \in StartProcs : Started(q) /\ list_tags(q)
    \/ \E q \in StartProcs : Started(q) /\ scan_tag(q)
    \/ \E q \in StartProcs : Started(q) /\ StartCmd_pick(q)

SpecStart == InitStart /\ [][NextStart]_vars

\* -------------------------------------------------------------- bisect
\* BisectCmd::execute from the candidate list on: the loop that picks a
\* pivot, gets that Electron, runs the test and narrows the bracket.
\* min_rev, max_rev and pivot are indices from 0, as in the code.

\* bisect_versions: the candidates, oldest first.
Candidates(n) == [i \in 1..n |-> V(1, i - 1, 0)]

\* releases.json with n releases, the newest first.
Releases(n) == [i \in 1..n |-> V(1, n - i, 0)]

\* releases.json as the release server writes it: without an entry, with a
\* prerelease among the releases, with a prerelease as its newest entry,
\* and in the order of publication, where the patch 1.1.1 of an older line
\* came out after 2.0.0.
ShortFeeds ==
    { <<>>,
      <<V(1, 3, 0), VPre(1, 3, 0, 1), V(1, 2, 0), V(1, 1, 0), V(1, 0, 0)>>,
      <<VPre(2, 0, 0, 1), V(1, 1, 0), V(1, 0, 0)>>,
      <<V(1, 1, 1), V(2, 0, 0), V(1, 1, 0), V(1, 0, 0)>> }

\* What --start and --end are given as.
BoundTexts ==
    { <<S("*")>>, VersionToString(V(1, 1, 0)), VersionToString(V(2, 0, 0)),
      <<S("latest")>> }

BisectInput(all, start, end) ==
    [all_versions |-> all, start |-> start, end |-> end]

BisectInputs ==
    { BisectInput(Releases(n), <<S("*")>>, <<S("*")>>) :
        n \in 1..MaxCandidates }
    \cup { BisectInput(all, start, end) :
             all \in ShortFeeds, start \in BoundTexts, end \in BoundTexts }

\* What a finished test process reports: exit code 0, or another one.
ExitStatuses == {0, 1, 2}

\* What the yes/no prompt gives back: an answer, or an error.
PromptAnswers == {"yes", "no", "error"}

\* A first pivot rounded up.
InitialPivotCeil(min_rev, max_rev) == (max_rev - min_rev + 1) \div 2

\* let mut pivot = (max_rev - min_rev) / 2;
InitialPivot(min_rev, max_rev) == (max_rev - min_rev) \div 2

\* A pivot that walks up one candidate at a time.
UpPivotStep(max_rev, pivot) == pivot + 1

\* let up_pivot = ((max_rev - pivot) / 2) + pivot;
UpPivot(max_rev, pivot) == ((max_rev - pivot) \div 2) + pivot

\* let down_pivot = ((pivot - min_rev) / 2) + min_rev;
DownPivot(min_rev, pivot) == ((pivot - min_rev) \div 2) + min_rev

\* Every candidate pivot taken for progress.
MovesAlways(c, bound, pivot) == TRUE

\* A pivot that equals the old one taken for progress.
MovesOffBound(c, bound, pivot) == c # bound

\* if up_pivot != max_rev && up_pivot != pivot, and the same test of
\* down_pivot against min_rev.
Moves(c, bound, pivot) == c # bound /\ c # pivot

\* The bracket left as it was by a test that passed.
PassBracketKept(min_rev, max_rev, pivot) ==
    [min_rev |-> min_rev, max_rev |-> max_rev]

\* min_rev = pivot;
PassBracket(min_rev, max_rev, pivot) ==
    [min_rev |-> pivot, max_rev |-> max_rev]

\* The lower end raised by a test that failed.
FailBracketRaisesMin(min_rev, max_rev, pivot) ==
    [min_rev |-> pivot, max_rev |-> max_rev]

\* The bracket left as it was by a test that failed.
FailBracketKept(min_rev, max_rev, pivot) ==
    [min_rev |-> min_rev, max_rev |-> max_rev]

\* max_rev = pivot;
FailBracket(min_rev, max_rev, pivot) ==
    [min_rev |-> min_rev, max_rev |-> pivot]

\* The exit status read the wrong way round.
successNonZero(status) == status # 0

\* ExitStatus::success()
success(status) == status = 0

\* let mut test_passed = status.success();
\* if self.interactive { test_passed = Confirm::...interact()?; }
TestPassed(interactive, status, answer) ==
    IF interactive THEN answer = "yes" ELSE success(status)

\* The early exit taken one candidate too late.
LastIterationStrict(min_rev, max_rev) == max_rev - min_rev < 1

\* if max_rev - min_rev <= 1 { is_bisect_over = true; }
LastIteration(min_rev, max_rev) == max_rev - min_rev <= 1

\* The error noted and the loop gone through again.
AbortSkipped(kind) == bisect' = [bisect EXCEPT !.pc = "loop", !.err = kind]

\* The driver ends with an error.
Abort(kind) == bisect' = [bisect EXCEPT !.pc = "aborted", !.err = kind]

\* The thread panics: the process ends without a result.
Panic(what) == bisect' = [bisect EXCEPT !.pc = "panicked", !.err = what]

\* The default of --start and --end.
Wildcard == <<S("*")>>

\* BisectCmd::get_version: the catalog's version for "*", the text given
\* otherwise, parsed.
get_version(specified_version, default_version) ==
    IF specified_version = Wildcard
    THEN ParseVersion(default_version)
    ELSE ParseVersion(specified_version)

\* Vec::reverse
RECURSIVE Reverse(_)
Reverse(seq) ==
    IF seq = <<>> THEN <<>>
    ELSE Append(Reverse(Tail(seq)), Head(seq))

\* A filter without the lower bound.
InBoundsNoStart(version, start_version, end_version) ==
    ~is_prerelease(version) /\ VersionLeq(version, end_version)

\* The filter of the candidate list: !version.is_prerelease()
\* && version >= start_version && version <= end_version
InBounds(version, start_version, end_version) ==
    /\ ~is_prerelease(version)
    /\ VersionLeq(start_version, version)
    /\ VersionLeq(version, end_version)

\* The start of execute: fetch releases.json, resolve the two bounds,
\* filter the catalog and reverse what is left.
list_candidates ==
    /\ bisect.pc = "fetch"
    /\ UNCHANGED <<engine, config>>
    /\ \E fetched \in BOOLEAN :
         LET all == bisect.all_versions
             start_version ==
                 get_version(bisect.start, VersionToString(all[Len(all)]))
             end_version == get_version(bisect.end, VersionToString(all[1]))
             keep(version) ==
                 InBounds(version, start_version.val, end_version.val)
         IN  IF ~fetched THEN Abort("HttpError")
             ELSE IF all = <<>> THEN Panic("index out of bounds")
             ELSE IF ~start_version.ok \/ ~end_version.ok
             THEN Abort("SemverError")
             ELSE bisect' = [bisect EXCEPT
                               !.pc = "start",
                               !.versions = Reverse(SelectSeq(all, keep))]

\* let mut min_rev = 0; ... let mut is_bisect_over = false;  With no
\* candidate, len() - 1 overflows (a panic in a debug build) or wraps, and
\* then the pivot is outside the list (a panic at bisect_versions[pivot]).
begin ==
    /\ bisect.pc = "start"
    /\ UNCHANGED <<engine, config>>
    /\ LET last_index == Len(bisect.versions) - 1
       IN  IF bisect.versions = <<>>
           THEN \E what \in {"attempt to subtract with overflow",
                              "index out of bounds"} : Panic(what)
           ELSE bisect' = [bisect EXCEPT
                             !.pc = "loop",
                             !.min_rev = 0,
                             !.max_rev = last_index,
                             !.pivot = InitialPivot(0, last_index),
                             !.is_bisect_over = FALSE]

\* The head of an iteration: the early-exit test of the bracket, then
\* ensure_electron() for the version at the pivot.
acquire ==
    /\ bisect.pc = "loop" /\ ~bisect.is_bisect_over
    /\ UNCHANGED <<engine, config>>
    /\ \E got \in BOOLEAN :
         IF got
         THEN bisect' = [bisect EXCEPT
                           !.pc = "run",
                           !.is_bisect_over =
                               LastIteration(bisect.min_rev, bisect.max_rev)]
         ELSE Abort("ElectronError")

\* The rest of an iteration: run the test, take its outcome, narrow the
\* bracket and move the pivot or end the search.
run_test ==
    /\ bisect.pc = "run"
    /\ UNCHANGED <<engine, config>>
    /\ \E spawned \in BOOLEAN, status \in ExitStatuses,
          answer \in IF bisect.interactive THEN PromptAnswers ELSE {"none"} :
         LET b == bisect
             test_passed == TestPassed(b.interactive, status, answer)
             c == IF test_passed THEN UpPivot(b.max_rev, b.pivot)
                  ELSE DownPivot(b.min_rev, b.pivot)
             bracket == IF test_passed
                        THEN PassBracket(b.min_rev, b.max_rev, b.pivot)
                        ELSE FailBracket(b.min_rev, b.max_rev, b.pivot)
             moves == Moves(c, IF test_passed THEN b.max_rev ELSE b.min_rev,
                            b.pivot)
             test == [idx |-> b.pivot, version |-> b.versions[b.pivot + 1],
                      status |-> status, answer |-> answer,
                      passed |-> test_passed,
                      min_rev |-> b.min_rev, max_rev |-> b.max_rev]
         IN  IF ~spawned THEN Abort("IoError")
             ELSE IF answer = "error" THEN Abort("PromptError")
             ELSE bisect' = [b EXCEPT
                    !.pc = "loop",
                    !.tested = Append(b.tested, test),
                    !.min_rev = bracket.min_rev,
                    !.max_rev = bracket.max_rev,
                    !.pivot = IF moves THEN c ELSE b.pivot,
                    !.is_bisect_over = b.is_bisect_over \/ ~moves]

\* The loop is left: the bracket is printed.
report ==
    /\ bisect.pc = "loop" /\ bisect.is_bisect_over
    /\ UNCHANGED <<engine, config>>
    /\ bisect' = [bisect EXCEPT
                    !.pc = "converged",
                    !.bracket = <<bisect.versions[bisect.min_rev + 1],
                                  bisect.versions[bisect.max_rev + 1]>>]

InitBisect ==
    /\ host = Linux
    /\ exeDirs = NoManifest
    /\ catalog = SpecCatalog
    /\ published = {}
    /\ api = TagResponses
    /\ dataDir = <<>>
    /\ cacheDir = <<>>
    /\ roots = {}
    /\ task = [p \in Procs |-> IdleTask]
    /\ last = NothingInstalled
    /\ \E input \in BisectInputs, interactive \in BOOLEAN :
          bisect = [BisectOff EXCEPT !.pc = "fetch",
                                     !.all_versions = input.all_versions,
                                     !.start = input.start,
                                     !.end = input.end,
                                     !.interactive = interactive]
    /\ config = ConfigOff

NextBisect == list_candidates \/ begin \/ acquire \/ run_test \/ report

SpecBisect == InitBisect /\ [][NextBisect]_vars

\* Every iteration that can be taken is taken.
FairBisect == SpecBisect /\ WF_vars(NextBisect)

\* -------------------------------------------------------------- config
\* ColliderConfigOptions::load: the layers merged into one ColliderConfig,
\* and the lookup of a key in the result.  The name of an environment
\* variable is the sequence of its words between underscores; a key is a
\* sequence of lowercase words.

\* str::to_lowercase on the words that occur.
ToLower(word) ==
    CASE word = "COLLIDER" -> "collider"
      [] word = "CONFIG" -> "config"
      [] word = "STORE" -> "store"
      [] word = "CACHE" -> "cache"
      [] OTHER -> word

\* The variables of the process environment.
HomeVar == <<"HOME">>
StoreVar == <<"COLLIDER", "CONFIG", "STORE">>
CacheVar == <<"COLLIDER", "CONFIG", "CACHE">>
OtherStoreVar == <<"COLLIDER", "STORE">>
BareVar == <<"COLLIDER", "CONFIG">>

ProcessEnvs ==
    { {HomeVar},
      {HomeVar, StoreVar},
      {HomeVar, OtherStoreVar, BareVar},
      {HomeVar, StoreVar, CacheVar} }

\* The value a source holds for a key.
Value(from, key) == [from |-> from, key |-> key]

\* What File::with_name(path) finds: a file that parses to a table of keys,
\* or one that does not parse; a path outside the domain has no file.
Toml(path, keyset) ==
    [parses |-> TRUE, keys |-> [k \in keyset |-> Value(path, k)]]
Malformed == [parses |-> FALSE, keys |-> <<>>]

GlobalPath == "colliderrc.toml in config_dir"

\* join("colliderrc"), join(".colliderrc"), join("colliderrc.toml"),
\* join(".colliderrc.toml"), in the order they are merged.
RcNames ==
    <<"colliderrc", ".colliderrc", "colliderrc.toml", ".colliderrc.toml">>

GlobalFiles ==
    { <<>>,
      GlobalPath :> Malformed,
      GlobalPath :> Toml(GlobalPath, {<<"store">>}),
      GlobalPath :> Toml(GlobalPath, {<<"store">>, <<"editor">>}) }

PkgFiles ==
    { <<>>,
      "colliderrc.toml" :> Toml("colliderrc.toml", {<<"editor">>}),
      (".colliderrc" :> Toml(".colliderrc", {<<"cache">>}))
          @@ ("colliderrc.toml" :> Toml("colliderrc.toml", {<<"cache">>})),
      ".colliderrc.toml" :> Malformed }

\* Environment::with_prefix("collider_config"): a variable whose lowercased
\* name starts with "collider_config_" gives the key that follows the
\* prefix, lowercased.
EnvKey(name) ==
    IF /\ Len(name) >= 3
       /\ ToLower(name[1]) = "collider" /\ ToLower(name[2]) = "config"
    THEN Some([i \in 1..(Len(name) - 2) |-> ToLower(name[i + 2])])
    ELSE None

\* The keys the environment source collects.
EnvLayer(envvars) ==
    LET named == {n \in envvars : EnvKey(n).some}
    IN  [parses |-> TRUE,
         keys |-> [k \in {EnvKey(n).val : n \in named} |->
                      Value("env", k)]]

\* File::with_name(path).required(false): a missing file gives no keys.
FileLayer(files, path) ==
    IF path \in DOMAIN files THEN files[path]
    ELSE [parses |-> TRUE, keys |-> <<>>]

\* The environment merged whatever the option says.
UseEnvAlways(opts) == TRUE

\* if self.env
UseEnv(opts) == opts.env

\* if self.global { if let Some(config_file) = self.global_config_file
UseGlobal(opts) == opts.global /\ opts.global_config_file.some

\* The sources load() merges, in order.
Layers(opts) ==
    (IF UseGlobal(opts)
     THEN <<FileLayer(opts.files, opts.global_config_file.val)>>
     ELSE <<>>)
    \o (IF UseEnv(opts) THEN <<EnvLayer(opts.vars)>> ELSE <<>>)
    \o (IF opts.pkg_root.some
        THEN [i \in 1..Len(RcNames) |-> FileLayer(opts.files, RcNames[i])]
        ELSE <<>>)

\* c.merge(source)?, one source after the other: a key of a later source
\* replaces that of an earlier one, a source that fails ends load().
RECURSIVE MergeFrom(_, _, _)
MergeFrom(layers, i, c) ==
    IF i > Len(layers) THEN [ok |-> TRUE, c |-> c]
    ELSE IF ~layers[i].parses THEN [ok |-> FALSE, c |-> c]
    ELSE MergeFrom(layers, i + 1, layers[i].keys @@ c)

\* ColliderConfigOptions::load
load ==
    /\ config.pc = "new"
    /\ UNCHANGED <<engine, bisect>>
    /\ LET merged == MergeFrom(Layers(config), 1, <<>>)
       IN  config' = [config EXCEPT
                        !.pc = IF merged.ok THEN "loaded" ELSE "failed",
                        !.c = IF merged.ok THEN merged.c ELSE <<>>]

ConfigKeys == {<<"store">>, <<"cache">>, <<"editor">>}

\* config.get_str(key) on the loaded configuration.
get_str(key) ==
    /\ config.pc = "loaded"
    /\ UNCHANGED <<engine, bisect>>
    /\ config' = [config EXCEPT !.got =
            Some(IF key \in DOMAIN config.c
                 THEN [key |-> key, ok |-> TRUE, val |-> config.c[key]]
                 ELSE [key |-> key, ok |-> FALSE,
                       val |-> Value("", key)])]

InitConfig ==
    /\ host = Linux
    /\ exeDirs = NoManifest
    /\ catalog = SpecCatalog
    /\ published = {}
    /\ api = TagResponses
    /\ dataDir = <<>>
    /\ cacheDir = <<>>
    /\ roots = {}
    /\ task = [p \in Procs |-> IdleTask]
    /\ last = NothingInstalled
    /\ bisect = BisectOff
    /\ \E global \in BOOLEAN, use_env \in BOOLEAN,
          pkg_root \in {None, Some("root")},
          file \in {None, Some(GlobalPath)},
          envvars \in ProcessEnvs, gf \in GlobalFiles, pf \in PkgFiles :
          config = [ConfigOff EXCEPT
                      !.pc = "new", !.global = global, !.env = use_env,
                      !.pkg_root = pkg_root, !.global_config_file = file,
                      !.vars = envvars, !.files = gf @@ pf]

NextConfig == load \/ \E key \in ConfigKeys : get_str(key)

SpecConfig == InitConfig /\ [][NextConfig]_vars

\* -------------------------------------------------------------- claims
Entries(os) == {ArchiveEntries(os)[i] : i \in 1..Len(ArchiveEntries(os))}

\* The cache entry holds every file of the archive, each written to its end.
Complete(triple) ==
    /\ triple \in DOMAIN dataDir
    /\ \A f \in Entries(host.os) : dataDir[triple][f] = "whole"

Returned(p) == task[p].pc = "done" /\ task[p].result.ok

IsListTags(e) == e.op = "list_tags"
IsDownload(e) == e.op = "download"
ListCalls(p) == SelectSeq(task[p].log, IsListTags)
Downloads(p) == SelectSeq(task[p].log, IsDownload)

LocalVersion == current_collider_version(exeDirs)
HasLocal == LocalVersion.ok /\ LocalVersion.val.some

\* C1: whenever ensure() returns a handle, the executable path names a file
\* of a fully extracted cache entry, whatever happened to the cache before.
C1_HandleInCompleteEntry ==
    \A p \in Procs :
        Returned(p) => Complete(task[p].result.exe[1])

\* C2: after an install that fails, the final cache directory of its key
\* does not exist or holds a complete extraction.
C2_FailedInstallLeavesNoPartial ==
    \A p \in Procs :
        (task[p].pc = "done" /\ task[p].installing /\ ~task[p].result.ok)
            => \/ task[p].triple \notin DOMAIN dataDir
               \/ Complete(task[p].triple)

\* C3: a cache entry that exists but is empty is a miss: no handle is
\* returned from the cache for an empty directory.
C3_EmptyDirIsMiss ==
    \A p \in Procs :
        (Returned(p) /\ ~task[p].installed)
            => /\ task[p].result.exe[1] \in DOMAIN dataDir
               /\ dataDir[task[p].result.exe[1]] # EmptyDir(host.os)

\* C4: an ensure() that follows a successful install at once, resolves to
\* the same key and has force unset, hits the cache: it downloads and
\* extracts nothing and returns the same executable path.
C4_RoundTripHits ==
    \A p \in Procs :
        (/\ last.installed
         /\ ~task[p].force
         /\ task[p].triple # <<>>
         /\ task[p].triple = last.exe[1])
            => /\ Returned(p)
               /\ task[p].result.exe = last.exe
               /\ ~task[p].installing
               /\ Downloads(p) = <<>>

C4_Witness ==
    \E p \in Procs :
        /\ last.installed /\ Returned(p) /\ task[p].via = "scan"
        /\ task[p].result.exe = last.exe

\* Position in the catalog of the tag the scan is at.
ScanPos(p) == task[p].page * PerPage + task[p].idx

TagVersion(name) == ParseVersion(StripPrefix(name))

\* The tag parses to a version that satisfies p's range under p's
\* prerelease-inclusion flag.
Satisfying(p, name) ==
    /\ TagVersion(name).ok
    /\ satisfies(task[p].range, TagVersion(name).val)
    /\ is_prerelease(TagVersion(name).val) => task[p].include_prerelease

Selected(p) == task[p].pc = "pick" /\ task[p].via = "scan"

\* C5 as stated: the scan selects the first tag in catalog order that
\* satisfies the range under the prerelease-inclusion flag.
C5_SelectsFirstSatisfying ==
    \A p \in Procs :
        Selected(p) =>
            /\ Satisfying(p, catalog[ScanPos(p)])
            /\ TagVersion(catalog[ScanPos(p)]).val = task[p].version
            /\ \A j \in 1..(ScanPos(p) - 1) : ~Satisfying(p, catalog[j])

\* C5 amended: the scan selects, in catalog order and without sorting, the
\* first satisfying tag whose release lookup succeeds: every satisfying tag
\* before the selected one had its lookup fail.
C5_SelectsFirstSatisfyingFound ==
    \A p \in Procs :
        Selected(p) =>
            /\ Satisfying(p, catalog[ScanPos(p)])
            /\ TagVersion(catalog[ScanPos(p)]).val = task[p].version
            /\ \A j \in 1..(ScanPos(p) - 1) :
                    Satisfying(p, catalog[j]) =>
                        TagOf(TagVersion(catalog[j]).val) \in task[p].skipped

\* The scan passed over a satisfying tag whose lookup failed and selected a
\* later one.
C5_Witness ==
    \E p \in Procs :
        /\ Selected(p)
        /\ \E j \in 1..(ScanPos(p) - 1) : Satisfying(p, catalog[j])

\* C6: the pages requested are 0, 1, 2, ... in this order, no page is
\* requested after an empty one, and MatchingVersionNotFound carries the
\* requested range and comes only when the last page requested was empty.
C6_PagesInOrderUntilEmpty ==
    \A p \in Procs :
        LET pages == ListCalls(p) IN
        /\ \A i \in 1..Len(pages) : pages[i].arg = <<N(i - 1)>>
        /\ \A i \in 1..(Len(pages) - 1) : TagPage(catalog, i - 1) # <<>>
        /\ (task[p].pc = "done"
                /\ task[p].result.err = "MatchingVersionNotFound")
            => /\ pages # <<>>
               /\ TagPage(catalog, Len(pages) - 1) = <<>>
               /\ task[p].result.range = task[p].range

\* A scan over two non-empty pages that ends at the empty third one.
C6_Witness ==
    \E p \in Procs :
        /\ task[p].pc = "done"
        /\ task[p].result.err = "MatchingVersionNotFound"
        /\ Len(ListCalls(p)) = 3

\* C7 as stated: when the local version satisfies the range, no page of tags
\* is requested.
C7_LocalSatisfiesNoListing ==
    \A p \in Procs :
        (/\ task[p].pc # "idle"
         /\ HasLocal
         /\ satisfies(task[p].range, LocalVersion.val.val))
            => ListCalls(p) = <<>>

\* C7 amended: when the local version satisfies the range and the
\* prerelease rule and its release lookup succeeds, no page of tags is
\* requested.
C7_LocalFoundNoListing ==
    \A p \in Procs :
        task[p].via = "local" =>
            /\ HasLocal
            /\ task[p].version = LocalVersion.val.val
            /\ Satisfying(p, TagOf(task[p].version))
            /\ ListCalls(p) = <<>>

\* Resolution ended with the release of the local version.
C7_Witness ==
    \E p \in Procs :
        /\ task[p].via = "local" /\ task[p].pc = "pick"
        /\ task[p].log = <<[op |-> "get_by_tag",
                            arg |-> TagOf(LocalVersion.val.val)]>>

\* C8: with a local version that satisfies the range, force unset and its
\* executable in the cache, ensure() returns a handle for that version
\* without any request to the catalog and without a download.
C8_CachedLocalNoRequests ==
    \A p \in Procs :
        (/\ task[p].pc # "idle"
         /\ HasLocal
         /\ satisfies(task[p].range, LocalVersion.val.val)
         /\ ~task[p].force
         /\ task[p].exeAtStart)
            => /\ Returned(p)
               /\ task[p].result.version = LocalVersion.val.val
               /\ task[p].result.exe[1] =
                    get_target_triple(LocalVersion.val.val,
                        Platform(host.os).val, Arch(host.arch).val)
               /\ task[p].log = <<>>
               /\ ~task[p].installing

C8_Witness ==
    \E p \in Procs :
        /\ Returned(p) /\ task[p].exeAtStart /\ ~task[p].force
        /\ task[p].log = <<>>

\* C9: the version of a returned handle satisfies the range and is not a
\* prerelease unless prereleases were asked for.
C9_HandleVersionAdmitted ==
    \A p \in Procs :
        Returned(p) =>
            /\ satisfies(task[p].range, task[p].result.version)
            /\ is_prerelease(task[p].result.version)
                    => task[p].include_prerelease

\* C10: once a rate-limit response has come back, ensure() has failed with
\* the rate-limit error: nothing follows that response.
C10_RateLimitAborts ==
    \A p \in Procs :
        task[p].limited =>
            /\ task[p].pc = "done"
            /\ ~task[p].result.ok
            /\ task[p].result.err = "GitHubApiLimit"
            /\ task[p].log[Len(task[p].log)].op \in {"get_by_tag", "list_tags"}
            /\ ~task[p].installing

\* A release lookup of a scanned tag was rate-limited.
C10_Witness ==
    \E p \in Procs :
        /\ task[p].limited /\ task[p].idx > 0
        /\ task[p].log[Len(task[p].log)].op = "get_by_tag"

IsGetByTag(e) == e.op = "get_by_tag"
LookupCalls(p) == SelectSeq(task[p].log, IsGetByTag)

\* Number of tags of the catalog the scan has dealt with.
Scanned(p) ==
    CASE task[p].pc = "scan" -> ScanPos(p) - 1
      [] task[p].pc = "list" ->
            IF task[p].page * PerPage < Len(catalog)
            THEN task[p].page * PerPage ELSE Len(catalog)
      [] OTHER -> ScanPos(p)

\* The tags whose release is due to be looked up, in order: the local
\* version's when it is admitted, then the satisfying ones among the first
\* n tags of the catalog.
DueLookups(p, n) ==
    (IF HasLocal /\ Satisfying(p, TagOf(LocalVersion.val.val))
     THEN <<TagOf(LocalVersion.val.val)>> ELSE <<>>)
        \o SelectSeq(SubSeq(catalog, 1, n), LAMBDA name : Satisfying(p, name))

\* C11: a not-found or other non-rate-limit error of a release lookup does
\* not end resolution: no lookup ends the call with GitHubApiError, every
\* satisfying tag the scan has passed was looked up in catalog order, every
\* lookup but a successful last one was swallowed, and the tag selected is
\* the one whose lookup succeeded.
C11_LookupErrorSwallowed ==
    \A p \in Procs :
        LET t == task[p]
            calls == LookupCalls(p)
            due == DueLookups(p, Scanned(p))
        IN  /\ (t.pc = "done" /\ t.result.err = "GitHubApiError")
                    => t.log[Len(t.log)].op = "list_tags"
            /\ (t.pc \in {"list", "scan"} \/ Selected(p))
                    => /\ [i \in 1..Len(calls) |-> calls[i].arg] = due
                       /\ \A i \in 1..Len(due) :
                             (i < Len(due) \/ ~Selected(p))
                                => due[i] \in t.skipped
                       /\ Selected(p)
                             => /\ due # <<>>
                                /\ TagOf(t.version) = due[Len(due)]

\* The scan went past a tag whose release lookup failed and selected a
\* later tag.
C11_Witness ==
    \E p \in Procs :
        /\ Selected(p) /\ ~HasLocal
        /\ \E j \in 1..(ScanPos(p) - 1) : catalog[j] \in task[p].skipped

\* The target names the program has for the hosts it supports.
PlatformNames == [windows |-> "win32", macos |-> "darwin", linux |-> "linux"]
CpuNames == [x86 |-> "ia32", x86_64 |-> "x64", aarch64 |-> "arm64"]
ExeNames ==
    [windows |-> "electron.exe",
     macos |-> "Electron.app/Contents/MacOS/Electron",
     linux |-> "electron"]

\* v{version}-{platform}-{arch} for the host.
ExpectedTriple(version) ==
    <<S("v")>> \o VersionToString(version)
        \o <<S("-"), S(PlatformNames[host.os]),
              S("-"), S(CpuNames[host.arch])>>

\* electron-v{version}-{platform}-{arch}.zip for the host.
ExpectedAsset(version) ==
    <<S("electron-")>> \o ExpectedTriple(version) \o <<S(".zip")>>

MissingFiles(p) ==
    task[p].pc = "done" /\ task[p].result.err = "MissingElectronFiles"

\* C12: when the resolved release has no asset named
\* electron-v{version}-{platform}-{arch}.zip, ensure() fails with
\* MissingElectronFiles carrying the resolved version and that file name,
\* and nothing is downloaded; it fails so whenever the asset is missing.
C12_MissingAssetFails ==
    \A p \in Procs :
        LET t == task[p] IN
        /\ MissingFiles(p)
                => /\ t.via # ""
                   /\ t.result.version = t.version
                   /\ t.result.target = ExpectedAsset(t.version)
                   /\ ExpectedAsset(t.version) \notin t.assets
                   /\ Downloads(p) = <<>>
                   /\ ~t.installing
        /\ (t.via # "" /\ t.pc # "pick"
                /\ ExpectedAsset(t.version) \notin t.assets)
                => MissingFiles(p)

\* The release of 2.5.0 lacks electron-v2.5.0-linux-x64.zip.
C12_Witness ==
    \E p \in Procs :
        /\ MissingFiles(p)
        /\ task[p].result.version = V(2, 5, 0)
        /\ task[p].result.target =
                <<S("electron-"), S("v"), N(2), S("."), N(5), S("."), N(0),
                  S("-"), S("linux"), S("-"), S("x64"), S(".zip")>>

PastCacheCheck(p) ==
    task[p].via # "" /\ task[p].pc # "pick" /\ ~MissingFiles(p)

\* C14: in a call whose resolution and asset selection succeeded, the
\* install sequence is entered if and only if the cache directory of the
\* key did not exist or force is set; otherwise the call returns without a
\* download, and no step of a call that is not installing changes the
\* file system.
C14_InstallIffMissOrForce ==
    /\ [](\A p \in Procs :
            PastCacheCheck(p) =>
                /\ task[p].installing
                        <=> (task[p].force \/ ~task[p].destAtCheck)
                /\ ~task[p].installing
                        => Returned(p) /\ Downloads(p) = <<>>)
    /\ [][(\A p \in Procs : ~task'[p].installing)
                => UNCHANGED <<dataDir, cacheDir, roots>>]_vars

\* A call found the directory of its key in the cache and returned.
C14_Witness ==
    \E p \in Procs :
        /\ Returned(p) /\ task[p].via = "scan"
        /\ task[p].destAtCheck /\ ~task[p].force /\ ~task[p].installing

\* The tests made so far are those of a monotonic boundary at b: every index
\* below b passes, every index from b on fails.
Monotonic(b) ==
    \A i \in 1..Len(bisect.tested) :
        bisect.tested[i].passed <=> bisect.tested[i].idx < b

NCandidates == Len(bisect.versions)

\* C15: when the bisection has converged on outcomes of a monotonic
\* boundary at b, every index below min_rev passes and every index above
\* max_rev fails, and for 1 <= b <= N-1 the bracket is (b-1, b) and the
\* versions reported are those at b-1 and b.
C15_BracketStraddlesBoundary ==
    bisect.pc = "converged" =>
        \A b \in 0..NCandidates :
            Monotonic(b) =>
                /\ \A i \in 0..(NCandidates - 1) :
                        /\ i < bisect.min_rev => i < b
                        /\ i > bisect.max_rev => i >= b
                /\ (1 <= b /\ b <= NCandidates - 1)
                        => /\ bisect.min_rev = b - 1
                           /\ bisect.max_rev = b
                           /\ bisect.bracket =
                                <<bisect.versions[b], bisect.versions[b + 1]>>

\* [v1.0.0, v1.1.0, v1.2.0, v1.3.0] failing at v1.2.0 and v1.3.0 only
\* converges to (v1.1.0, v1.2.0).
C15_Witness ==
    /\ bisect.pc = "converged"
    /\ bisect.versions = <<V(1, 0, 0), V(1, 1, 0), V(1, 2, 0), V(1, 3, 0)>>
    /\ Monotonic(2)
    /\ bisect.bracket = <<V(1, 1, 0), V(1, 2, 0)>>

\* The least k with 2^k >= n.
RECURSIVE CeilLog2(_)
CeilLog2(n) == IF n <= 1 THEN 0 ELSE 1 + CeilLog2((n + 1) \div 2)

BisectEnded == bisect.pc \in {"converged", "aborted"}

\* The run had no candidate to bisect over.
NoCandidates == bisect.pc = "panicked"

\* C16: whatever the outcomes, the number of pivots tested never exceeds
\* ceil(log2 N) + 1, and the driver ends: it converges unless an iteration
\* gave no outcome and ended it with an error.
C16_BisectionTerminates ==
    /\ [](Len(bisect.tested) <= CeilLog2(NCandidates) + 1)
    /\ <>(BisectEnded \/ NoCandidates)

\* Eight candidates bisected in three tests.
C16_Witness ==
    /\ bisect.pc = "converged"
    /\ NCandidates = 8
    /\ Len(bisect.tested) = 3

\* C17: the outcome of an iteration is PASS exactly when the test process
\* exited with status zero and FAIL when it exited with another status; in
\* interactive mode the process is run all the same and the outcome is the
\* answer to the prompt, whatever the exit status.
C17_OutcomeFromStatusOrAnswer ==
    \A i \in 1..Len(bisect.tested) :
        LET test == bisect.tested[i] IN
        /\ test.status \in ExitStatuses
        /\ IF bisect.interactive
           THEN /\ test.answer \in {"yes", "no"}
                /\ test.passed <=> test.answer = "yes"
           ELSE /\ test.answer = "none"
                /\ test.passed <=> test.status = 0

\* An interactive iteration whose process exited with zero and whose
\* answer was no.
C17_Witness ==
    /\ bisect.interactive
    /\ \E i \in 1..Len(bisect.tested) :
          /\ bisect.tested[i].status = 0
          /\ bisect.tested[i].answer = "no"
          /\ ~bisect.tested[i].passed

\* The step is an iteration whose test passed, or failed.
TestStep(passed) ==
    /\ bisect.pc = "run" /\ bisect'.pc = "loop"
    /\ bisect'.tested[Len(bisect'.tested)].passed = passed

LastTest == bisect.tested[Len(bisect.tested)]

\* C19 as stated: on a PASS with c = pivot + (max_rev - pivot)/2, the
\* driver converges when c equals max_rev or pivot, and otherwise sets
\* min_rev = pivot and moves the pivot to c; min_rev is assigned only when
\* it does not converge, and max_rev is not changed.
C19_PassAssignsMinOnlyWhenMoving ==
    [][TestStep(TRUE) =>
        LET c == bisect.pivot + ((bisect.max_rev - bisect.pivot) \div 2)
        IN  /\ bisect'.max_rev = bisect.max_rev
            /\ IF c = bisect.max_rev \/ c = bisect.pivot
               THEN /\ bisect'.is_bisect_over
                    /\ bisect'.min_rev = bisect.min_rev
               ELSE /\ bisect'.min_rev = bisect.pivot
                    /\ bisect'.pivot = c
                    /\ bisect'.is_bisect_over = bisect.is_bisect_over]_vars

\* C19 amended: on a PASS with c = pivot + (max_rev - pivot)/2, min_rev is
\* set to the pivot whether the driver converges or not and max_rev is not
\* changed; the driver converges, leaving the pivot, when c equals max_rev
\* or the pivot, and otherwise moves the pivot to c.
C19_PassTransition ==
    [][TestStep(TRUE) =>
        LET c == bisect.pivot + ((bisect.max_rev - bisect.pivot) \div 2)
        IN  /\ bisect'.max_rev = bisect.max_rev
            /\ bisect'.min_rev = bisect.pivot
            /\ IF c = bisect.max_rev \/ c = bisect.pivot
               THEN /\ bisect'.is_bisect_over
                    /\ bisect'.pivot = bisect.pivot
               ELSE /\ bisect'.pivot = c
                    /\ bisect'.is_bisect_over = bisect.is_bisect_over]_vars

\* A PASS that converged and raised min_rev to the pivot.
C19_Witness ==
    /\ bisect.tested # <<>>
    /\ LastTest.passed
    /\ bisect.is_bisect_over
    /\ bisect.min_rev = LastTest.idx
    /\ LastTest.min_rev < LastTest.idx

\* C20: on a FAIL with c = min_rev + (pivot - min_rev)/2, max_rev is set to
\* the pivot and min_rev is not changed; the driver converges when c equals
\* min_rev or the pivot, and otherwise moves the pivot to c.
C20_FailTransition ==
    [][TestStep(FALSE) =>
        LET c == bisect.min_rev + ((bisect.pivot - bisect.min_rev) \div 2)
        IN  /\ bisect'.max_rev = bisect.pivot
            /\ bisect'.min_rev = bisect.min_rev
            /\ IF c = bisect.min_rev \/ c = bisect.pivot
               THEN /\ bisect'.is_bisect_over
                    /\ bisect'.pivot = bisect.pivot
               ELSE /\ bisect'.pivot = c
                    /\ bisect'.is_bisect_over = bisect.is_bisect_over]_vars

\* A FAIL that lowered max_rev to the pivot and moved the pivot down.
C20_Witness ==
    /\ bisect.tested # <<>>
    /\ ~LastTest.passed
    /\ ~bisect.is_bisect_over
    /\ bisect.max_rev = LastTest.idx
    /\ LastTest.max_rev > LastTest.idx
    /\ bisect.pivot < LastTest.idx

\* The variable COLLIDER_CONFIG_<KEY> of each key.
VarOfKey(key) ==
    <<"COLLIDER", "CONFIG">> \o
        <<CASE key = <<"store">> -> "STORE"
            [] key = <<"cache">> -> "CACHE"
            [] OTHER -> "EDITOR">>

\* Some enabled layer defines the key: the environment layer by a variable
\* COLLIDER_CONFIG_<KEY>, the global layer by the key in the given global
\* file, the package layer by the key in a colliderrc file of the root.
DefinedByEnv(key) == config.env /\ VarOfKey(key) \in config.vars
DefinedByGlobal(key) ==
    /\ config.global /\ config.global_config_file # None
    /\ GlobalPath \in DOMAIN config.files
    /\ key \in DOMAIN config.files[GlobalPath].keys
DefinedByPkg(key) ==
    /\ config.pkg_root # None
    /\ \E i \in 1..Len(RcNames) :
          /\ RcNames[i] \in DOMAIN config.files
          /\ key \in DOMAIN config.files[RcNames[i]].keys
Defined(key) ==
    DefinedByEnv(key) \/ DefinedByGlobal(key) \/ DefinedByPkg(key)

\* C18: the configuration load() returns holds a key exactly when an
\* enabled layer defines it, and reading a key succeeds exactly when an
\* enabled layer defines it: a disabled layer adds nothing, a key no
\* enabled layer defines is an error.
C18_KeyIffEnabledLayerDefines ==
    config.pc = "loaded" =>
        /\ \A key \in ConfigKeys \cup DOMAIN config.c :
                key \in DOMAIN config.c <=> Defined(key)
        /\ config.got # None =>
                (config.got.val.ok <=> Defined(config.got.val.key))

\* COLLIDER_CONFIG_STORE read under store with the global layer disabled.
C18_Witness ==
    /\ config.pc = "loaded" /\ ~config.global /\ config.env
    /\ config.pkg_root = None
    /\ config.got = Some([key |-> <<"store">>, ok |-> TRUE,
                          val |-> Value("env", <<"store">>)])

\* The bracket at the start of the iteration of a test was at most one wide.
StartedNarrow(test) == test.max_rev - test.min_rev <= 1

\* C21: an iteration that starts with max_rev - min_rev <= 1 still gets and
\* tests its pivot, is flagged as the last one before the test is run, and
\* is followed by no other iteration, whatever its outcome.
C21_EarlyExitIsLastIteration ==
    /\ [](/\ \A i \in 1..(Len(bisect.tested) - 1) :
                ~StartedNarrow(bisect.tested[i])
          /\ (bisect.pc = "run"
                /\ bisect.max_rev - bisect.min_rev <= 1)
                => bisect.is_bisect_over
          /\ (bisect.tested # <<>> /\ StartedNarrow(LastTest))
                => /\ bisect.is_bisect_over
                   /\ bisect.pc \in {"loop", "converged"})
    /\ [][(/\ bisect.pc = "loop" /\ ~bisect.is_bisect_over
            /\ bisect.max_rev - bisect.min_rev <= 1)
                => bisect'.pc \in {"run", "aborted"}]_vars

\* Two candidates: the only iteration started with an adjacent bracket, was
\* tested, passed, and ended the loop.
C21_Witness ==
    /\ bisect.pc = "converged"
    /\ NCandidates = 2
    /\ Len(bisect.tested) = 1
    /\ StartedNarrow(LastTest) /\ LastTest.passed

\* C22: on convergence with at least two candidates the bracket is two
\* adjacent candidates, max_rev = min_rev + 1, whatever the outcomes.
C22_BracketAdjacent ==
    (bisect.pc = "converged" /\ NCandidates >= 2)
        => bisect.max_rev = bisect.min_rev + 1

\* The candidate list has been built and the search has not begun.
Listed == bisect.pc = "start"

\* The catalog's versions.
CatalogVersions ==
    {bisect.all_versions[i] : i \in 1..Len(bisect.all_versions)}

\* The oldest and the newest entry of the catalog.
OldestEntry ==
    CHOOSE v \in CatalogVersions : \A w \in CatalogVersions : VersionLeq(v, w)
NewestEntry ==
    CHOOSE v \in CatalogVersions : \A w \in CatalogVersions : VersionLeq(w, v)

\* The catalog lists its versions from the newest to the oldest.
NewestFirst ==
    \A i, j \in 1..Len(bisect.all_versions) :
        i < j => VersionLess(bisect.all_versions[j], bisect.all_versions[i])

\* C23: the candidate list holds exactly the catalog entries that are no
\* prereleases and lie between start and end (a wildcard start being the
\* oldest catalog entry, a wildcard end the newest, an explicit bound its
\* parsed text), each once, in ascending order of version.
C23_CandidatesFilteredAscending ==
    Listed =>
        LET start_version ==
                IF bisect.start = Wildcard THEN OldestEntry
                ELSE ParseVersion(bisect.start).val
            end_version ==
                IF bisect.end = Wildcard THEN NewestEntry
                ELSE ParseVersion(bisect.end).val
        IN  /\ {bisect.versions[i] : i \in 1..NCandidates}
                  = {v \in CatalogVersions :
                        /\ v.pre = 0
                        /\ ~VersionLess(v, start_version)
                        /\ ~VersionLess(end_version, v)}
            /\ \A i, j \in 1..NCandidates :
                  i < j => VersionLess(bisect.versions[i], bisect.versions[j])

\* The place of a version in the catalog.
CatalogIndex(v) ==
    CHOOSE k \in 1..Len(bisect.all_versions) : bisect.all_versions[k] = v

\* C23 (as the driver builds the list): the candidate list holds exactly
\* the catalog entries that are no prereleases and lie between start and
\* end, in the reverse of the catalog's order, where a wildcard start is
\* the catalog's last entry, a wildcard end its first entry and an explicit
\* bound its parsed text; when the catalog lists its versions from the
\* newest to the oldest, these are the oldest and the newest entry and the
\* list is in ascending order of version.
C23_CandidatesReverseCatalog ==
    Listed =>
        LET all == bisect.all_versions
            start_version ==
                IF bisect.start = Wildcard THEN all[Len(all)]
                ELSE ParseVersion(bisect.start).val
            end_version ==
                IF bisect.end = Wildcard THEN all[1]
                ELSE ParseVersion(bisect.end).val
        IN  /\ {bisect.versions[i] : i \in 1..NCandidates}
                  = {v \in CatalogVersions :
                        /\ v.pre = 0
                        /\ ~VersionLess(v, start_version)
                        /\ ~VersionLess(end_version, v)}
            /\ \A i, j \in 1..NCandidates :
                  i < j => CatalogIndex(bisect.versions[j])
                              < CatalogIndex(bisect.versions[i])
            /\ NewestFirst =>
                  /\ start_version = IF bisect.start = Wildcard
                                     THEN OldestEntry ELSE start_version
                  /\ end_version = IF bisect.end = Wildcard
                                   THEN NewestEntry ELSE end_version
                  /\ \A i, j \in 1..NCandidates :
                        i < j => VersionLess(bisect.versions[i],
                                             bisect.versions[j])

\* A catalog in the order of publication, bounded below by an explicit
\* start, gave three candidates.
C23_Witness ==
    /\ Listed
    /\ ~NewestFirst
    /\ bisect.start # Wildcard
    /\ NCandidates = 3
    /\ NCandidates < Len(bisect.all_versions)

\* C24: a call made with force set does not take the fast path for the
\* local version: it returns nothing from the cache without a request, its
\* release does not come from a lookup of the local version's tag, and its
\* first request is a listing of the catalog.
C24_ForceSkipsFastPath ==
    \A p \in Procs :
        (task[p].force /\ task[p].pc # "idle") =>
            /\ Returned(p) => task[p].log # <<>>
            /\ task[p].via # "local"
            /\ task[p].log # <<>> => task[p].log[1].op = "list_tags"

\* The call ended with an error of the catalog API.
EndedByApiError(p) ==
    task[p].pc = "done" /\ task[p].apiError # Answered

\* C25: an error of the catalog API is reported as the rate-limit error
\* when its message contains "rate limit exceeded", and as the generic
\* API error in every other case.
C25_RateLimitIffMessage ==
    \A p \in Procs :
        /\ EndedByApiError(p) =>
              task[p].result.err =
                  IF \E i \in 1..Len(task[p].apiError.message) :
                        /\ i + 2 <= Len(task[p].apiError.message)
                        /\ task[p].apiError.message[i] = "rate"
                        /\ task[p].apiError.message[i + 1] = "limit"
                        /\ task[p].apiError.message[i + 2] = "exceeded"
                  THEN "GitHubApiLimit"
                  ELSE "GitHubApiError"
        /\ (/\ task[p].pc = "done"
            /\ task[p].result.err \in {"GitHubApiLimit", "GitHubApiError"})
              => EndedByApiError(p)

\* A listing failed with GitHub's error about the secondary rate limit,
\* which has the words of the phrase but not the phrase: a generic error.
C25_Witness ==
    \E p \in Procs :
        /\ EndedByApiError(p)
        /\ task[p].apiError.variant = "GitHub"
        /\ Contains(task[p].apiError.message, <<"rate", "limit">>)
        /\ task[p].result.err = "GitHubApiError"

\* p is in the catalog scan: about to list a page or to take up a tag.
Scanning(p) == task[p].pc \in {"list", "scan"}

\* p's scan ends in this step with an error met on the way, not with the
\* catalog exhausted.
ScanAborts(p) ==
    /\ Scanning(p)
    /\ task'[p].pc = "done"
    /\ task'[p].result.err # "MatchingVersionNotFound"

\* p's step sent a release lookup.
Looks(p) ==
    /\ task[p].pc = "scan"
    /\ Len(task'[p].log) = Len(task[p].log) + 1
    /\ task'[p].log[Len(task'[p].log)].op = "get_by_tag"

\* p goes on to the tag after the one it took up.
GoesOn(p) ==
    IF task[p].idx < Len(task[p].tags)
    THEN task'[p].pc = "scan" /\ task'[p].idx = task[p].idx + 1
    ELSE task'[p].pc = "list" /\ task'[p].page = task[p].page + 1

\* C26 (as claimed): an error that ends the catalog scan is the rate-limit
\* error; every other error met while scanning is swallowed.
C26_OnlyRateLimitAborts ==
    [][\A p \in Procs :
          ScanAborts(p) => task'[p].result.err = "GitHubApiLimit"]_vars

\* C26 (as the resolver scans): of the errors of the release lookups made
\* during the scan, the rate-limit error is the only one that ends the
\* scan, every other one is swallowed and the scan goes on to the next tag;
\* the scan also ends with the error of a failed listing of tags, whatever
\* its class, and with the parse error of a tag that is no version.
C26_LookupErrorsSwallowedButLimit ==
    [][\A p \in Procs :
          /\ (Looks(p) /\ task'[p].pc = "done")
                => /\ task'[p].result.err = "GitHubApiLimit"
                   /\ task'[p].apiError = RateLimited
          /\ (Looks(p) /\ task'[p].pc \notin {"done", "pick", "idle"})
                => /\ GoesOn(p)
                   /\ task[p].tags[task[p].idx] \in task'[p].skipped
          /\ (ScanAborts(p) /\ ~Looks(p))
                => \/ /\ task[p].pc = "list"
                      /\ task'[p].apiError \in ApiErrors
                      /\ task'[p].result.err
                            \in {"GitHubApiLimit", "GitHubApiError"}
                   \/ /\ task[p].pc = "scan"
                      /\ ~TagVersion(task[p].tags[task[p].idx]).ok
                      /\ task'[p].result.err = "SemverError"]_vars

\* A lookup failed and was swallowed, and the scan then ended with the
\* generic error of a failed listing.
C26_Witness ==
    \E p \in Procs :
        /\ task[p].pc = "done"
        /\ task[p].skipped # {}
        /\ ListCalls(p) # <<>>
        /\ task[p].log[Len(task[p].log)].op = "list_tags"
        /\ task[p].result.err = "GitHubApiError"

\* The tag is a version behind its first character.
WellFormed(name) == ParseVersion(Tail(name)).ok

\* The tags p has parsed are the first ones of the catalog, in its order.
ParsedInOrder(p) ==
    /\ Len(task[p].parsed) <= Len(catalog)
    /\ task[p].parsed = SubSeq(catalog, 1, Len(task[p].parsed))

\* The tag p parsed last.
LastParsed(p) == task[p].parsed[Len(task[p].parsed)]

\* C27: the scan parses the tags in catalog order, whatever the range; a
\* tag that is no version behind its first character ends the call with
\* the parse error when the scan reaches it, so that no tag behind it is
\* parsed, and the tag selected is the last one parsed.
C27_MalformedTagAborts ==
    /\ [](\A p \in Procs :
            /\ ParsedInOrder(p)
            /\ \A i \in 1..Len(task[p].parsed) :
                  ~WellFormed(task[p].parsed[i])
                     => /\ i = Len(task[p].parsed)
                        /\ task[p].pc = "done"
                        /\ task[p].result.err = "SemverError"
            /\ (task[p].pc = "done" /\ task[p].result.err = "SemverError")
                  => /\ task[p].parsed # <<>>
                     /\ ~WellFormed(LastParsed(p))
            /\ task[p].via = "scan"
                  => /\ task[p].parsed # <<>>
                     /\ LastParsed(p) = TagOf(task[p].version))
    /\ [][\A p \in Procs :
            /\ (/\ task[p].pc = "scan"
                /\ ~WellFormed(task[p].tags[task[p].idx])
                /\ task'[p] # task[p])
                  => \/ task'[p] = IdleTask
                     \/ /\ task'[p].pc = "done"
                        /\ task'[p].result.err = "SemverError"
                        /\ task'[p].log = task[p].log
            /\ (task[p].via = "scan" /\ task'[p].pc # "idle")
                  => task'[p].parsed = task[p].parsed]_vars

\* The range ^2.0.0 met a tag that is no version before the tag of a
\* version of the range: the call ended with the parse error.
C27_Witness ==
    \E p \in Procs :
        /\ task[p].pc = "done"
        /\ task[p].result.err = "SemverError"
        /\ task[p].range = Caret(V(2, 0, 0))
        /\ Len(task[p].parsed) = 2
        /\ catalog[1] = TagOf(V(3, 0, 0))
        /\ Len(catalog) = 3
        /\ Satisfying(p, catalog[3])

\* The places of the manifests above the executable, nearest first.
Ancestors == 1..Len(exeDirs)

\* The manifest is the product's.
IsProduct(i) == exeDirs[i].kind = "pkg" /\ exeDirs[i].name = "collider"

\* The manifest exists and cannot be read, or is no JSON of a package.
IsBroken(i) == exeDirs[i].kind \in {"unreadable", "badjson"}

\* The walk meets the manifest: no manifest of the product is nearer.
IsMet(i) == \A j \in Ancestors : j < i => ~IsProduct(j)

\* The error of a manifest that cannot be used.
ManifestError(i) ==
    IF exeDirs[i].kind = "unreadable" THEN "IoError" ELSE "BadJson"

\* The host is one the engine installs on.
SupportedHost ==
    /\ host.os \in {"windows", "macos", "linux"}
    /\ host.arch \in {"x86", "x86_64", "aarch64"}

\* C28: the local version is that of the nearest manifest named
\* "collider", manifests of other names being passed over; when a manifest
\* met on the way cannot be read or parsed, every call fails with that
\* manifest's error before any request, with force set or not.
C28_NearestManifestOrFailure ==
    \A p \in Procs :
        task[p].pc # "idle" =>
            /\ \A i \in Ancestors :
                  (/\ IsBroken(i)
                   /\ IsMet(i)
                   /\ \A j \in Ancestors : j < i => ~IsBroken(j))
                     => /\ task[p].pc = "done"
                        /\ ~task[p].result.ok
                        /\ task[p].log = <<>>
                        /\ SupportedHost
                              => task[p].result.err = ManifestError(i)
            /\ (\/ task[p].via = "local"
                \/ Returned(p) /\ task[p].log = <<>>)
                  => \E i \in Ancestors :
                        /\ IsProduct(i)
                        /\ IsMet(i)
                        /\ task[p].result.ok
                              => task[p].result.version = exeDirs[i].version
                        /\ task[p].via = "local"
                              => task[p].version = exeDirs[i].version
            /\ (task[p].log # <<>> /\ task[p].log[1].op = "get_by_tag")
                  => \E i \in Ancestors :
                        /\ IsProduct(i)
                        /\ IsMet(i)
                        /\ task[p].log[1].arg = TagOf(exeDirs[i].version)

\* A forced call failed on an application's manifest that is no JSON and
\* lies below the product's.
C28_Witness ==
    \E p \in Procs :
        /\ exeDirs = BadAppManifest
        /\ task[p].force
        /\ task[p].pc = "done"
        /\ task[p].result.err = "BadJson"
        /\ task[p].log = <<>>

\* The archive file of p's target.
ZipOf(p) == ZipName(task[p].triple)

\* The archive file of p holds the whole body.
ZipWhole(p) ==
    /\ ZipOf(p) \in DOMAIN cacheDir
    /\ cacheDir[ZipOf(p)].len = NChunks

\* Every file of the archive is in p's cache directory, whole.
Extracted(p) ==
    /\ task[p].triple \in DOMAIN dataDir
    /\ \A f \in Entries(host.os) : dataDir[task[p].triple][f] = "whole"

\* C29: the steps of an install follow one another: the archive is opened
\* for extraction only by a call that has written the last chunk and
\* flushed the file, nothing is written to the cache directory before that,
\* the archive file is removed only by a call whose extraction is complete,
\* and when a call that installed has returned its handle, the archive file
\* of its target is gone.
C29_InstallStepsOrdered ==
    /\ [](\A p \in Procs :
            /\ task[p].pc \in {"unzip", "extract", "cleanup"}
                  => task[p].written = NChunks /\ ZipWhole(p)
            /\ task[p].pc = "cleanup" => Extracted(p)
            /\ (Returned(p) /\ task[p].installed)
                  => /\ ZipOf(p) \notin DOMAIN cacheDir
                     /\ Extracted(p))
    /\ [][/\ \A p \in Procs :
               (task[p].pc # "unzip" /\ task'[p].pc = "unzip")
                  => /\ task[p].pc = "chunks"
                     /\ task[p].written = NChunks
          /\ dataDir' # dataDir
                => \E p \in Procs :
                      /\ task[p].pc = "extract"
                      /\ ZipWhole(p)
          /\ (\E z \in DOMAIN cacheDir : z \notin DOMAIN cacheDir')
                => \E p \in Procs :
                      /\ task[p].pc = "cleanup"
                      /\ Extracted(p)
                      /\ DOMAIN cacheDir' = DOMAIN cacheDir \ {ZipOf(p)}]_vars

\* A call downloaded, extracted and removed the archive, and returned.
C29_Witness ==
    \E p \in Procs :
        /\ Returned(p)
        /\ task[p].installed
        /\ task[p].written = NChunks
        /\ Extracted(p)
        /\ cacheDir = <<>>

\* p is in the install sequence.
Installing(p) ==
    task[p].pc \in {"mkdirs", "fetch", "chunks", "unzip", "extract", "cleanup"}

\* p and q are two calls for the same key that both found no directory for
\* it at their cache check.
BothMissed(p, q) ==
    /\ p # q
    /\ PastCacheCheck(p) /\ PastCacheCheck(q)
    /\ task[p].triple = task[q].triple
    /\ ~task[p].destAtCheck /\ ~task[q].destAtCheck

\* C30: nothing keeps two calls for the same key apart: each call that
\* found no directory at its cache check runs the install sequence,
\* whatever the other call is doing, both on the same archive file and the
\* same directory, and no step of a call changes the position of the
\* other.
C30_NoMutualExclusion ==
    /\ [](\A p, q \in Procs :
            BothMissed(p, q) =>
                /\ task[p].installing /\ task[q].installing
                /\ ZipOf(p) = ZipOf(q))
    /\ [][\A p, q \in Procs :
            (p # q /\ task'[p] # task[p]) => task'[q] = task[q]]_vars

\* Both calls missed, and one extracts into the directory of the key while
\* the other is still writing the archive file of the same name.
C30_Witness ==
    \E p, q \in Procs :
        /\ BothMissed(p, q)
        /\ ~task[p].force /\ ~task[q].force
        /\ task[p].pc = "extract" /\ task[p].entry = 2
        /\ task[q].pc = "chunks"
        /\ ZipOf(q) \in DOMAIN cacheDir
        /\ task[p].triple \in DOMAIN dataDir

\* q's extraction wrote its last entry.
ExtractionDone(q) ==
    /\ task[q].installing
    /\ task[q].entry = Len(ArchiveEntries(host.os))
    /\ \/ task[q].pc = "cleanup"
       \/ task[q].pc = "done"
            /\ (task[q].result.ok \/ task[q].result.err = "IoError")

\* C31: of two calls for the same key on an empty cache, none returns a
\* handle before an extraction into the directory of the key has written
\* its last entry.
C31_NoHandleBeforeExtraction ==
    \A p \in Procs :
        Returned(p) =>
            \E q \in Procs :
                /\ task[q].triple = task[p].triple
                /\ ExtractionDone(q)

\* An iteration of the search loop is about to start.
IterationStart == bisect.pc = "loop" /\ ~bisect.is_bisect_over

\* The search is under way or has ended with a bracket.
Searching == bisect.pc \in {"loop", "run", "converged"}

\* C32: whenever an iteration starts, 0 <= min_rev <= pivot <= max_rev
\* <= N - 1 and the pivot is min_rev + (max_rev - min_rev) / 2, rounded
\* down; the first pivot is (N - 1) / 2; and every index the driver reads
\* the candidate list at, the pivot's and the bracket's, is one of the list.
C32_IndexInvariant ==
    /\ IterationStart =>
          /\ 0 <= bisect.min_rev
          /\ bisect.min_rev <= bisect.pivot
          /\ bisect.pivot <= bisect.max_rev
          /\ bisect.max_rev <= NCandidates - 1
          /\ 2 * (bisect.pivot - bisect.min_rev)
                \in {bisect.max_rev - bisect.min_rev,
                     bisect.max_rev - bisect.min_rev - 1}
    /\ (IterationStart /\ bisect.tested = <<>>) =>
          /\ 2 * bisect.pivot \in {NCandidates - 1, NCandidates - 2}
          /\ bisect.min_rev = 0
          /\ bisect.max_rev = NCandidates - 1
    /\ Searching =>
          /\ NCandidates >= 1
          /\ {bisect.pivot, bisect.min_rev, bisect.max_rev}
                \subseteq 0..(NCandidates - 1)

\* The third iteration starts on a bracket that has left both ends of the
\* list.
C32_Witness ==
    /\ IterationStart
    /\ Len(bisect.tested) = 2
    /\ bisect.min_rev > 0
    /\ bisect.max_rev < NCandidates - 1
    /\ bisect.min_rev < bisect.pivot
    /\ bisect.pivot < bisect.max_rev

\* The candidate of index i was tested with the given outcome.
TestedAs(i, passed) ==
    \E k \in 1..Len(bisect.tested) :
        bisect.tested[k].idx = i /\ bisect.tested[k].passed = passed

\* C33: when the search has converged, whatever the outcomes were, min_rev
\* is 0 or the index of a candidate whose test passed, and max_rev is
\* N - 1 or the index of a candidate whose test failed.
C33_BracketProvenance ==
    bisect.pc = "converged" =>
        /\ bisect.min_rev = 0 \/ TestedAs(bisect.min_rev, TRUE)
        /\ bisect.max_rev = NCandidates - 1
              \/ TestedAs(bisect.max_rev, FALSE)

\* The search converged with both ends of the bracket moved off the ends
\* of the list, after three tests or more.
C33_Witness ==
    /\ bisect.pc = "converged"
    /\ bisect.min_rev > 0
    /\ bisect.max_rev < NCandidates - 1
    /\ TestedAs(bisect.min_rev, TRUE)
    /\ TestedAs(bisect.max_rev, FALSE)
    /\ Len(bisect.tested) >= 3

\* C34: in one run no candidate is acquired and tested twice: the indices
\* of the tests made, and the pivot of the test being made, are all
\* different.
C34_NoCandidateTestedTwice ==
    /\ \A i, j \in 1..Len(bisect.tested) :
          i # j => bisect.tested[i].idx # bisect.tested[j].idx
    /\ (IterationStart \/ bisect.pc = "run") =>
          \A i \in 1..Len(bisect.tested) :
              bisect.tested[i].idx # bisect.pivot

\* A run that converged after four tests, of four candidates.
C34_Witness ==
    /\ bisect.pc = "converged"
    /\ Len(bisect.tested) = 4
    /\ Cardinality({bisect.tested[i].idx : i \in 1..4}) = 4

\* C35: the index arithmetic never underflows: no run panics, and the
\* list the search loop is set up on has a candidate, whatever the catalog
\* and the bounds are.
C35_NoUnderflow ==
    /\ bisect.pc # "panicked"
    /\ Listed => NCandidates >= 1

\* C36: when the artifact of the pivot cannot be acquired or the test
\* process cannot be launched, the run ends there with that error: the
\* failed iteration adds no test, nothing is tested afterwards and no
\* bracket is reported.
C36_FailureAborts ==
    /\ [](/\ bisect.err # "" => bisect.pc \in {"aborted", "panicked"}
          /\ bisect.pc = "aborted" => bisect.bracket = <<>>)
    /\ [][/\ bisect.pc = "aborted" => bisect' = bisect
          /\ (bisect.pc = "loop" /\ bisect'.pc \notin {"run", "converged"})
                => /\ bisect'.pc = "aborted"
                   /\ bisect'.err = "ElectronError"
                   /\ bisect'.tested = bisect.tested
          /\ (bisect.pc = "run" /\ bisect'.pc # "loop")
                => /\ bisect'.pc = "aborted"
                   /\ bisect'.err \in {"IoError", "PromptError"}
                   /\ bisect'.tested = bisect.tested]_vars

\* The third pivot was acquired and its test process could not be started.
C36_Witness ==
    /\ bisect.pc = "aborted"
    /\ bisect.err = "IoError"
    /\ Len(bisect.tested) = 2
    /\ bisect.bracket = <<>>

\* The steps of a call before its install sequence.
BeforeInstall(p) ==
    task[p].pc \in {"idle", "resolve", "list", "scan", "pick"}

\* The errors a call fails with before the install sequence: of the host,
\* of the manifests, of the catalog, of the selection.
EarlyErrors ==
    {"UnsupportedPlatform", "UnsupportedArch", "BadJson", "GitHubApiLimit",
     "GitHubApiError", "SemverError", "MatchingVersionNotFound",
     "MissingElectronFiles"}

\* C37: a call that fails before its install sequence leaves the file
\* system as it was: none of its steps up to the failure creates, changes
\* or removes anything below the two root directories, and a call that
\* ended with one of the early errors never entered the install sequence.
C37_EarlyFailureLeavesFilesystem ==
    /\ [](\A p \in Procs :
            (task[p].pc = "done" /\ ~task[p].result.ok)
                => /\ task[p].result.err \in EarlyErrors
                        => ~task[p].installing /\ Downloads(p) = <<>>
                   /\ ~task[p].installing
                        => task[p].result.err \in EarlyErrors \cup {"IoError"})
    /\ [][\A p \in Procs :
            (BeforeInstall(p) /\ task'[p] # task[p])
                => UNCHANGED <<dataDir, cacheDir, roots>>]_vars

\* A call failed for a missing asset on a host whose cache holds entries.
C37_Witness ==
    \E p \in Procs :
        /\ task[p].pc = "done"
        /\ task[p].result.err = "MissingElectronFiles"
        /\ dataDir # <<>>
        /\ roots # {}

\* The directory of the key p resolved exists in the cache.
KeyCached(p) == ExpectedTriple(task[p].version) \in DOMAIN dataDir

\* C38: a call whose release came from the scan and lacks the asset of the
\* host's target fails with MissingElectronFiles and returns no handle,
\* also when the cache has a directory for the resolved key and force is
\* not set: the asset is looked for before the cache is.
C38_AssetBeforeCacheCheck ==
    \A p \in Procs :
        (/\ task[p].via = "scan"
         /\ task[p].pc # "pick"
         /\ ZipName(ExpectedTriple(task[p].version)) \notin task[p].assets)
            => /\ task[p].pc = "done"
               /\ ~task[p].result.ok
               /\ task[p].result.err = "MissingElectronFiles"
               /\ task[p].result.exe = <<>>

\* The scan resolved 2.0.0, whose directory is in the cache and whose
\* release has no asset for the host, in a call without force.
C38_Witness ==
    \E p \in Procs :
        /\ MissingFiles(p)
        /\ task[p].via = "scan"
        /\ ~task[p].force
        /\ KeyCached(p)
        /\ task[p].version = V(2, 0, 0)

\* C39: for the same range and flags, on the same host, manifests, cache
\* and catalog, with the same answers of the API, the start command's copy
\* sends the requests the engine sends and ends as the engine does: with
\* the same path, with the same kind of error, or at the install of the
\* same key.
C39_StartEquivalentToEngine ==
    \A p \in EngineProcs, q \in StartProcs :
        (/\ Settled(p) /\ Settled(q)
         /\ task[p].range = task[q].range
         /\ task[p].force = task[q].force
         /\ task[p].include_prerelease = task[q].include_prerelease)
            => /\ task[q].log = task[p].log
               /\ task[q].pc = task[p].pc
               /\ task[q].result.ok = task[p].result.ok
               /\ task[q].result.err = task[p].result.err
               /\ task[q].result.exe = task[p].result.exe
               /\ task[q].pc = "mkdirs" => task[q].triple = task[p].triple

====
